---- MODULE Spec2Model ----
(***************************************************************************)
(* The multi-hart task subsystem of the kernel: trap entry and dispatch    *)
(* (interrupt.rs), the per-hart round-robin scheduler (task/scheduler.rs), *)
(* task creation, spawn and exit (task.rs), the interrupt-saving spinlock  *)
(* (spin/mutex.rs), the allocator's lock (heap.rs) and the one-shot cell   *)
(* (spin/once.rs).                                                         *)
(*                                                                         *)
(* A hart executes one thread at a time: the stack of some task.  What a   *)
(* thread is doing is a frame: a code position (at), the step inside a     *)
(* lock or unlock call (ph), and the live locals of the position (tkt: the *)
(* ticket drawn by spawn, ie: the guard's interrupt_state).  A trap pushes *)
(* the handler on the interrupted thread's stack, so the interrupted frame *)
(* is what the handler receives as epc and what schedule stores into       *)
(* context.pc.                                                             *)
(***************************************************************************)
EXTENDS Integers, Sequences, FiniteSets, TLC

\* Number of harts in the CPU table (cpus.len() in Task::spawn).
NHarts == 2

\* Number of Task::spawn calls explored (values of SPAWN_TICKET).
MaxSpawn == 2

\* Number of Task::spawn calls explored when every hart spawns and no trap
\* is taken; the task table has room for that many user tasks.
MaxTickets == 4

\* Number of trap entries explored.
MaxTraps == 3

\* Number of timer ticks explored on a hart with a steady task set.
MaxPicks == 4

\* Number of values offered to OnceLock::set.
MaxVal == 2

\* The callee-saved register slots of a Context that are modelled (ra, sp, ...).
NSaved == 2

\* Register and memory words range over 0 .. MaxReg.
MaxReg == 1

\* Number of physical harts of the machine that boots.
NBootHarts == 3

\* Width in bits of one half of the time counter (32 in the hardware).
WordBits == 1

\* The time counter is explored from 0 to MaxTime.
MaxTime == 5

\* Number of read_time calls explored.
MaxReads == 2

\* Stacks are explored at the addresses 1 .. MaxBase.
MaxBase == 40

\* The raw parts of a callable are drawn from 1 .. MaxPtr.
MaxPtr == 2

\* const STACK_SIZE: usize = 1024 * 16
STACK_SIZE == 16384

\* Task::trampoline as *const () as usize
TrampolineEntry == 4096

\* Number of Cpu records init_cpu_vec builds, at most.
MaxCpus == 2

\* Allocations are explored in the pages 1 .. MaxPage.
MaxPage == 14

\* main.rs, const STACK_SIZE: usize = 1024 * 32
KERNEL_STACK_SIZE == 32768

\* const TRAP_STACK_SIZE: usize = 1024 * 8
TRAP_STACK_SIZE == 8192

\* Layout::from_size_align(.., 4096)
PAGE == 4096

Harts == 0 .. (NHarts - 1)

\* Task ids: the Main task of hart h is h, the task of ticket k is NHarts + k.
Tasks == 0 .. (NHarts + MaxTickets - 1)

NoTask == NHarts + MaxTickets

Tickets == 0 .. (MaxTickets - 1)

NoHart == NHarts

MainTask(h) == h

TaskOfTicket(k) == NHarts + k

\* TaskKind: Main for the boot thread of a hart, User for a spawned task.
TaskKind(t) == IF t < NHarts THEN "Main" ELSE "User"

Frame(at) == [at |-> at, ph |-> 0, tkt |-> 0, ie |-> FALSE]

NullFrame == Frame("zero")

TrampolineFrame == Frame("trampoline")

VARIABLES
    sched,       \* per hart: current_task and waiting_tasks of its Scheduler
    task_state,  \* per task: Absent (not created), Ready, Running, Dead, Freed (dropped)
    ctx_pc,      \* per task: context.pc
    ctx_ra,      \* per task: where context.ra returns to: zero, trampoline, schedule
    idle_ra,     \* per hart: the ra slot of the scheduler's idle_context
    locked,      \* per scheduler: the hart that won Mutex.locked, or NoHart
    heap,        \* the thread holding the allocator's lock, or NoTask
    ticket,      \* SPAWN_TICKET
    irq,         \* per hart: local interrupt enable
    mpie,        \* per hart: interrupt enable saved by the last trap entry
    sip,         \* per hart: software interrupt pending
    frame,       \* per hart: the frame the hart is executing
    thread,      \* per hart: the task on whose stack the hart executes
    epc,         \* per hart: epc argument, then return value, of trap_handler
    old_ctx,     \* per hart: old_ctx_ptr of schedule (NoTask: the idle context)
    new_ctx,     \* per hart: new_ctx_ptr of schedule
    drop_task,   \* per hart: the old task schedule drops at the end of its block
    traps,       \* number of trap entries so far (bounds the exploration)
    order,       \* history: insertion order of a steady task set (<<>>: not recorded)
    picks,       \* history: the tasks schedule made current, while order is recorded
    once_state,  \* OnceLock.state
    once_data,   \* OnceLock.data
    once_op,     \* per hart: the call of set or get it is executing on the cell
    once_res,    \* per hart: what its last completed call on the cell returned
    once_won,    \* history: the calls of set that returned Ok
    ipis,        \* history, per ticket: the physical ids its spawn sent an IPI to
    armed,       \* per hart: a timer deadline is programmed
    cause,       \* per hart: cause argument of the trap_handler call in progress
    intr,        \* history, per task: the pc a timer trap interrupted it at, until it is back there
    regs,        \* switch_context: ra, sp, s0.. of the calling hart
    mem,         \* switch_context: the two Context structures in memory
    calls,       \* switch_context: the calls made so far
    regs0,       \* history: the registers before the first call
    fdt_cpus,    \* boot: the reg values of the device tree's cpu nodes, in node order
    boot_hart,   \* boot: the physical id of the hart the firmware booted
    boot_status, \* BOOT_STATUS
    hpc,         \* boot, per physical hart: where it is between _start and the idle loop
    heap_claimed,\* boot: heap::init() has claimed the heap
    id_map,      \* HART_ID_MAP (<<>>: not published)
    cpu_tab,     \* CPU_VEC (<<>>: not published)
    tp,          \* boot, per physical hart: the logical_id of the Cpu in its thread pointer
    starts,      \* history: the sbi::hart_start calls made, with their results
    writers,     \* history: the harts that stored to BOOT_STATUS
    early_alloc, \* history: an allocation was made before the heap was claimed
    time,        \* the 64-bit time counter
    rt,          \* read_time: where the call is, and the hi and lo it has read
    rt_res,      \* read_time: the results returned so far, oldest first
    held,        \* history: the values the counter held since the call in progress began
    from_in,     \* Task::from: the address of the stack it allocates and the callable's raw parts
    made,        \* Task::from: the tasks it has returned
    sie,         \* per hart: the SIE bit of sstatus, where it is told apart from mstatus.MIE
    cpu_count,   \* init_cpu_vec: the hart count it was given
    cpu_alloc,   \* history: the addresses alloc returned for each Cpu built
    cpu_vec      \* init_cpu_vec: the Cpu records built so far

schedVars == <<sched, task_state, ctx_pc, ctx_ra, idle_ra, locked, heap, ticket, irq,
               mpie, sip, frame, thread, epc, old_ctx, new_ctx, drop_task, traps>>

rrVars == <<order, picks>>

onceVars == <<once_state, once_data, once_op, once_res, once_won>>

auxVars == <<ipis, armed, cause, intr>>

switchVars == <<regs, mem, calls, regs0>>

bootVars == <<fdt_cpus, boot_hart, boot_status, hpc, heap_claimed, id_map, cpu_tab, tp,
              starts, writers, early_alloc>>

timeVars == <<time, rt, rt_res, held>>

fromVars == <<from_in, made>>

statusVars == <<sie>>

cpuVars == <<cpu_count, cpu_alloc, cpu_vec>>

unitVars == <<switchVars, bootVars, timeVars, fromVars, statusVars, cpuVars>>

kernelVars == <<schedVars, rrVars, onceVars, auxVars>>

\* What each unit leaves alone.
outsideSwitch == <<kernelVars, bootVars, timeVars, fromVars, statusVars, cpuVars>>

outsideBoot == <<kernelVars, switchVars, timeVars, fromVars, statusVars, cpuVars>>

outsideTime == <<kernelVars, switchVars, bootVars, fromVars, statusVars, cpuVars>>

outsideFrom == <<kernelVars, switchVars, bootVars, timeVars, statusVars, cpuVars>>

outsideCpu == <<kernelVars, switchVars, bootVars, timeVars, fromVars, statusVars>>

vars == <<schedVars, rrVars, onceVars, auxVars, unitVars>>

\* Option<T>
None == [some |-> FALSE, v |-> 0]

Some(v) == [some |-> TRUE, v |-> v]

IdleOp == [pc |-> "idle", arg |-> 0, after_ready |-> FALSE]

NoResult == [kind |-> "none", val |-> None, after_ready |-> FALSE, at_ready |-> FALSE]

\* OnceLock::new(): state Empty, data None; no call in progress.
OnceInit ==
    /\ once_state = "Empty"
    /\ once_data = None
    /\ once_op = [h \in Harts |-> IdleOp]
    /\ once_res = [h \in Harts |-> NoResult]
    /\ once_won = <<>>

\* The fields ra, sp, s0.. of Context, by their index in the structure.
Slots == 0 .. (NSaved - 1)

RegValues == 0 .. MaxReg

\* struct Context: the callee-saved slots, then pc.
Contexts == [r : [Slots -> RegValues], pc : RegValues]

ContextNames == {"A", "B"}

\* No switch_context call is under way: registers and contexts zeroed.
SwitchInit ==
    /\ regs = [i \in Slots |-> 0]
    /\ mem = [c \in ContextNames |-> [r |-> [i \in Slots |-> 0], pc |-> 0]]
    /\ calls = <<>>
    /\ regs0 = [i \in Slots |-> 0]

\* The physical harts of the machine that boots.
BootHarts == 0 .. (NBootHarts - 1)

\* No Cpu installed; no logical id.
NoCpu == NBootHarts

\* enum BootStage
ColdBoot == 0

BssInitialized == 1

ReadyToWork == 2

\* Where a hart is during boot; cpu is the index start_harts has reached.
BootAt(at) == [at |-> at, cpu |-> 0]

\* No boot is under way: no device tree, every hart stopped.
BootIdle ==
    /\ fdt_cpus = <<>>
    /\ boot_hart = 0
    /\ boot_status = ColdBoot
    /\ hpc = [p \in BootHarts |-> BootAt("stopped")]
    /\ heap_claimed = FALSE
    /\ id_map = <<>>
    /\ cpu_tab = <<>>
    /\ tp = [p \in BootHarts |-> NoCpu]
    /\ starts = <<>>
    /\ writers = {}
    /\ early_alloc = FALSE

\* No read_time call is under way, the counter at 0.
TimeIdle ==
    /\ time = 0
    /\ rt = [pc |-> "idle", hi |-> 0, lo |-> 0]
    /\ rt_res = <<>>
    /\ held = {}

\* No Task::from call to follow.
FromIdle ==
    /\ from_in = [stack_bottom |-> 0, data_ptr |-> 0, vtable_ptr |-> 0]
    /\ made = <<>>

\* sstatus.SIE after reset.
StatusIdle == sie = [h \in Harts |-> FALSE]

\* No init_cpu_vec to follow.
CpuIdle ==
    /\ cpu_count = 0
    /\ cpu_alloc = <<>>
    /\ cpu_vec = <<>>

UnitInit == SwitchInit /\ BootIdle /\ TimeIdle /\ FromIdle /\ StatusIdle /\ CpuIdle

\* Scheduler::with_task(Task::main()) for every hart, hart_setup done:
\* interrupts enabled, the hart runs its boot thread.  The saved interrupt
\* enable is written by every trap entry before mret reads it, so its value
\* here is never read.
InitKernel ==
    /\ sched = [h \in Harts |-> [current_task |-> MainTask(h), waiting_tasks |-> <<>>]]
    /\ task_state = [t \in Tasks |-> IF t < NHarts THEN "Ready" ELSE "Absent"]
    /\ ctx_pc = [t \in Tasks |-> NullFrame]
    /\ ctx_ra = [t \in Tasks |-> "zero"]
    /\ idle_ra = [h \in Harts |-> "zero"]
    /\ locked = [h \in Harts |-> NoHart]
    /\ heap = NoTask
    /\ ticket = 0
    /\ irq = [h \in Harts |-> TRUE]
    /\ mpie = [h \in Harts |-> TRUE]
    /\ sip = [h \in Harts |-> FALSE]
    /\ frame = [h \in Harts |-> Frame("run")]
    /\ thread = [h \in Harts |-> MainTask(h)]
    /\ epc = [h \in Harts |-> NullFrame]
    /\ old_ctx = [h \in Harts |-> NoTask]
    /\ new_ctx = [h \in Harts |-> NoTask]
    /\ drop_task = [h \in Harts |-> NoTask]
    /\ traps = 0
    /\ order = <<>>
    /\ picks = <<>>
    /\ ipis = [k \in Tickets |-> <<>>]
    /\ armed = [h \in Harts |-> TRUE]
    /\ cause = [h \in Harts |-> "none"]
    /\ intr = [t \in Tasks |-> NullFrame]
    /\ OnceInit

Init == InitKernel /\ UnitInit

\* The number of trap entries explored: MaxPicks while a steady set is recorded.
TrapBudget == IF order = <<>> THEN MaxTraps ELSE MaxPicks

\* The scheduler a hart reaches through its thread pointer (Cpu::get().scheduler,
\* SCHEDULER in Scheduler::schedule): its own.
SchedulerOf(h) == h

\* Cpu::get().logical_id
LogicalId(h) == h

\* A target computed from the ticket after the increment.
TargetHartNext(k) == (k + 1) % NHarts

\* target_hart = ticket % n_harts
TargetHart(k) == k % NHarts

\* ---------------------------------------------------------------- Mutex

LockSites == {"sp_lock", "ex_lock", "sc_lock", "po_lock"}

UnlockSites == {"sp_unlock", "ex_unlock", "sc_unlock", "sc_ret", "po_unlock"}

SpawnSites == {"sp_lock", "sp_from", "sp_add", "sp_unlock"}

\* The scheduler whose Mutex the lock or guard at the hart's position is about.
LockTarget(h) ==
    IF frame[h].at \in SpawnSites THEN TargetHart(frame[h].tkt) ELSE SchedulerOf(h)

AfterLock(at) ==
    CASE at = "sp_lock" -> "sp_from"
      [] at = "ex_lock" -> "ex_mark"
      [] at = "sc_lock" -> "sc_body"
      [] at = "po_lock" -> "po_read"

AfterUnlock(at) ==
    CASE at = "sp_unlock" -> "sp_ipi"
      [] at = "ex_unlock" -> "ex_raise"
      [] at = "sc_unlock" -> "sc_switch"
      [] at = "sc_ret" -> "mret"
      [] at = "po_unlock" -> "mret"

\* interrupt::disable()
InterruptDisable(h) == [irq EXCEPT ![h] = FALSE]

\* interrupt::enable()
InterruptEnable(h) == [irq EXCEPT ![h] = TRUE]

\* Mutex::lock, first statement: irqs_enabled = the hart's interrupt enable.
MutexSample(h) ==
    /\ frame[h].at \in LockSites
    /\ frame[h].ph = 0
    /\ frame' = [frame EXCEPT ![h].ie = irq[h], ![h].ph = IF irq[h] THEN 1 ELSE 2]
    /\ UNCHANGED <<unitVars, auxVars, onceVars, rrVars, traps, sched, task_state, ctx_pc, ctx_ra, idle_ra, locked, heap, ticket,
                   irq, mpie, sip, thread, epc, old_ctx, new_ctx, drop_task>>

\* Mutex::lock: if irqs_enabled { interrupt::disable() }
MutexDisable(h) ==
    /\ frame[h].at \in LockSites
    /\ frame[h].ph = 1
    /\ irq' = InterruptDisable(h)
    /\ frame' = [frame EXCEPT ![h].ph = 2]
    /\ UNCHANGED <<unitVars, auxVars, onceVars, rrVars, traps, sched, task_state, ctx_pc, ctx_ra, idle_ra, locked, heap, ticket,
                   mpie, sip, thread, epc, old_ctx, new_ctx, drop_task>>

\* A lock taken with a plain store(true): it never waits.
MutexAcquireNoCheck(h) ==
    /\ frame[h].at \in LockSites
    /\ frame[h].ph = 2
    /\ locked' = [locked EXCEPT ![LockTarget(h)] = h]
    /\ frame' = [frame EXCEPT ![h].at = AfterLock(frame[h].at), ![h].ph = 0]
    /\ UNCHANGED <<unitVars, auxVars, onceVars, rrVars, traps, sched, task_state, ctx_pc, ctx_ra, idle_ra, heap, ticket, irq,
                   mpie, sip, thread, epc, old_ctx, new_ctx, drop_task>>

\* Mutex::lock: the compare_exchange(false, true) that succeeds; a failed one
\* spins, which changes nothing.
MutexAcquire(h) ==
    /\ frame[h].at \in LockSites
    /\ frame[h].ph = 2
    /\ locked[LockTarget(h)] = NoHart
    /\ locked' = [locked EXCEPT ![LockTarget(h)] = h]
    /\ frame' = [frame EXCEPT ![h].at = AfterLock(frame[h].at), ![h].ph = 0]
    /\ UNCHANGED <<unitVars, auxVars, onceVars, rrVars, traps, sched, task_state, ctx_pc, ctx_ra, idle_ra, heap, ticket, irq,
                   mpie, sip, thread, epc, old_ctx, new_ctx, drop_task>>

\* MutexGuard::drop: self.lock.locked.store(false, Release)
MutexRelease(h) ==
    /\ frame[h].at \in UnlockSites
    /\ frame[h].ph = 0
    /\ locked' = [locked EXCEPT ![LockTarget(h)] = NoHart]
    /\ frame' = [frame EXCEPT ![h].ph = 1]
    /\ UNCHANGED <<unitVars, auxVars, onceVars, rrVars, traps, sched, task_state, ctx_pc, ctx_ra, idle_ra, heap, ticket, irq,
                   mpie, sip, thread, epc, old_ctx, new_ctx, drop_task>>

\* A guard whose drop enables interrupts whatever lock had sampled.
MutexRestoreAlways(h) ==
    /\ frame[h].at \in UnlockSites
    /\ frame[h].ph = 1
    /\ irq' = InterruptEnable(h)
    /\ frame' = [frame EXCEPT ![h] = [Frame(AfterUnlock(frame[h].at)) EXCEPT
                                        !.tkt = frame[h].tkt]]
    /\ UNCHANGED <<unitVars, auxVars, onceVars, rrVars, traps, sched, task_state, ctx_pc, ctx_ra, idle_ra, locked, heap, ticket,
                   mpie, sip, thread, epc, old_ctx, new_ctx, drop_task>>

\* MutexGuard::drop: if self.interrupt_state { interrupt::enable() }
MutexRestore(h) ==
    /\ frame[h].at \in UnlockSites
    /\ frame[h].ph = 1
    /\ irq' = IF frame[h].ie THEN InterruptEnable(h) ELSE irq
    /\ frame' = [frame EXCEPT ![h] = [Frame(AfterUnlock(frame[h].at)) EXCEPT
                                        !.tkt = frame[h].tkt]]
    /\ UNCHANGED <<unitVars, auxVars, onceVars, rrVars, traps, sched, task_state, ctx_pc, ctx_ra, idle_ra, locked, heap, ticket,
                   mpie, sip, thread, epc, old_ctx, new_ctx, drop_task>>

\* ----------------------------------------------------------------- heap

HeapSites == {"sp_box", "sp_from", "sc_drop"}

\* AllocWrapper::alloc / dealloc: self.0.lock() of the allocator's spin::Mutex,
\* which leaves the interrupt enable alone.
HeapLock(h) ==
    /\ frame[h].at \in HeapSites
    /\ frame[h].ph = 0
    /\ heap = NoTask
    /\ heap' = thread[h]
    /\ frame' = [frame EXCEPT ![h].ph = 1]
    /\ UNCHANGED <<unitVars, auxVars, onceVars, rrVars, traps, sched, task_state, ctx_pc, ctx_ra, idle_ra, locked, ticket, irq,
                   mpie, sip, thread, epc, old_ctx, new_ctx, drop_task>>

\* ---------------------------------------------------------- Task::spawn

\* hart_setup: if cpu.logical_id == 0 { Task::spawn(..) }, called by the boot
\* thread.  Task::spawn: ticket = SPAWN_TICKET.fetch_add(1); target_hart =
\* ticket % n_harts
SpawnTicket(h) ==
    /\ frame[h].at = "run"
    /\ LogicalId(h) = 0
    /\ thread[h] = MainTask(h)
    /\ ticket < MaxSpawn
    /\ ticket' = ticket + 1
    /\ frame' = [frame EXCEPT ![h] = [Frame("sp_box") EXCEPT !.tkt = ticket]]
    /\ UNCHANGED <<unitVars, auxVars, onceVars, rrVars, traps, sched, task_state, ctx_pc, ctx_ra, idle_ra, locked, heap, irq,
                   mpie, sip, thread, epc, old_ctx, new_ctx, drop_task>>

\* Task::spawn called by the boot thread of any hart: ticket =
\* SPAWN_TICKET.fetch_add(1); target_hart = ticket % n_harts
SpawnCall(h) ==
    /\ frame[h].at = "run"
    /\ thread[h] = MainTask(h)
    /\ ticket < MaxTickets
    /\ ticket' = ticket + 1
    /\ frame' = [frame EXCEPT ![h] = [Frame("sp_box") EXCEPT !.tkt = ticket]]
    /\ UNCHANGED <<unitVars, auxVars, onceVars, rrVars, traps, sched, task_state, ctx_pc, ctx_ra,
                   idle_ra, locked, heap, irq, mpie, sip, thread, epc, old_ctx,
                   new_ctx, drop_task>>

\* Task::spawn: Box::new(entry) returns, the allocator's guard is dropped.
SpawnBoxed(h) ==
    /\ frame[h].at = "sp_box"
    /\ frame[h].ph = 1
    /\ heap' = NoTask
    /\ frame' = [frame EXCEPT ![h].at = "sp_lock", ![h].ph = 0]
    /\ UNCHANGED <<unitVars, auxVars, onceVars, rrVars, traps, sched, task_state, ctx_pc, ctx_ra, idle_ra, locked, ticket, irq,
                   mpie, sip, thread, epc, old_ctx, new_ctx, drop_task>>

\* Task::from(boxed), evaluated with the target scheduler's guard alive: the
\* stack and the context are allocated; ra = pc = trampoline, state Ready.
SpawnTaskFrom(h) ==
    /\ frame[h].at = "sp_from"
    /\ frame[h].ph = 1
    /\ heap' = NoTask
    /\ task_state' = [task_state EXCEPT ![TaskOfTicket(frame[h].tkt)] = "Ready"]
    /\ ctx_pc' = [ctx_pc EXCEPT ![TaskOfTicket(frame[h].tkt)] = TrampolineFrame]
    /\ ctx_ra' = [ctx_ra EXCEPT ![TaskOfTicket(frame[h].tkt)] = "trampoline"]
    /\ frame' = [frame EXCEPT ![h].at = "sp_add", ![h].ph = 0]
    /\ UNCHANGED <<unitVars, auxVars, onceVars, rrVars, traps, sched, idle_ra, locked, ticket, irq, mpie, sip, thread, epc,
                   old_ctx, new_ctx, drop_task>>

\* Scheduler::add_task: waiting_tasks.push_back(task)
AddTask(s, t) == [sched EXCEPT ![s].waiting_tasks = Append(@, t)]

\* Task::spawn: scheduler.add_task(Task::from(boxed))
SpawnAdd(h) ==
    /\ frame[h].at = "sp_add"
    /\ sched' = AddTask(TargetHart(frame[h].tkt), TaskOfTicket(frame[h].tkt))
    /\ frame' = [frame EXCEPT ![h].at = "sp_unlock", ![h].ph = 0]
    /\ UNCHANGED <<unitVars, auxVars, onceVars, rrVars, traps, task_state, ctx_pc, ctx_ra, idle_ra, locked, heap, ticket, irq,
                   mpie, sip, thread, epc, old_ctx, new_ctx, drop_task>>

\* Cpu.physical_id = fdt::to_physical(i) = HART_ID_MAP[i]: the i-th cpu node
\* of the device tree, here numbered downwards.
PhysicalId(h) == (NHarts - 1) - h

\* The hart the firmware reaches under a physical id.
HartOfPhysical(p) == CHOOSE g \in Harts : PhysicalId(g) = p

\* An IPI addressed by the logical id of the target.
IpiSendLogical(p) == [sip EXCEPT ![p] = TRUE]

\* timer::ipi::send(physical_hart_id): sbi::send_ipi(1 << physical_hart_id)
\* sets the software-interrupt pending bit of that hart.
IpiSend(p) == [sip EXCEPT ![HartOfPhysical(p)] = TRUE]

\* Task::spawn: if target_hart != cpu.logical_id { timer::ipi::send(..) }
SpawnIpi(h) ==
    LET k == frame[h].tkt
        remote == TargetHart(k) # LogicalId(h)
    IN  /\ frame[h].at = "sp_ipi"
        /\ sip' = IF remote THEN IpiSend(PhysicalId(TargetHart(k))) ELSE sip
        /\ ipis' = IF remote
                   THEN [ipis EXCEPT ![k] = Append(@, PhysicalId(TargetHart(k)))]
                   ELSE ipis
        /\ frame' = [frame EXCEPT ![h] = Frame("run")]
        /\ UNCHANGED <<unitVars, armed, cause, intr, onceVars, rrVars, traps, sched, task_state, ctx_pc, ctx_ra, idle_ra, locked, heap, ticket,
                   irq, mpie, thread, epc, old_ctx, new_ctx, drop_task>>

\* ----------------------------------------------------------- Task::exit

\* The callable of a user task returns: ra was set to Task::exit by the
\* trampoline.  The boot thread (hart_setup) never returns.
ExitCall(h) ==
    /\ frame[h].at = "run"
    /\ TaskKind(thread[h]) = "User"
    /\ frame' = [frame EXCEPT ![h] = Frame("ex_lock")]
    /\ UNCHANGED <<unitVars, auxVars, onceVars, rrVars, traps, sched, task_state, ctx_pc, ctx_ra, idle_ra, locked, heap, ticket,
                   irq, mpie, sip, thread, epc, old_ctx, new_ctx, drop_task>>

\* A task_mut that hands out the next task to run.
TaskMutHead(s) ==
    IF sched[s].waiting_tasks = <<>> THEN sched[s].current_task
    ELSE Head(sched[s].waiting_tasks)

\* Scheduler::task_mut: &mut self.current_task
TaskMut(s) == sched[s].current_task

\* Task::exit: scheduler.task_mut().state = TaskState::Dead
ExitMark(h) ==
    /\ frame[h].at = "ex_mark"
    /\ task_state' = [task_state EXCEPT ![TaskMut(SchedulerOf(h))] = "Dead"]
    /\ frame' = [frame EXCEPT ![h].at = "ex_unlock", ![h].ph = 0]
    /\ UNCHANGED <<unitVars, auxVars, onceVars, rrVars, traps, sched, ctx_pc, ctx_ra, idle_ra, locked, heap, ticket, irq, mpie,
                   sip, thread, epc, old_ctx, new_ctx, drop_task>>

\* Task::exit: csr_set_i!("sip", 2), then the wfi loop.
ExitRaise(h) ==
    /\ frame[h].at = "ex_raise"
    /\ sip' = [sip EXCEPT ![h] = TRUE]
    /\ frame' = [frame EXCEPT ![h] = Frame("ex_wfi")]
    /\ UNCHANGED <<unitVars, auxVars, onceVars, rrVars, traps, sched, task_state, ctx_pc, ctx_ra, idle_ra, locked, heap, ticket,
                   irq, mpie, thread, epc, old_ctx, new_ctx, drop_task>>

\* ---------------------------------------------------------------- traps

\* A handler that leaves the timer as the expired deadline left it.
ScheduleNextSkipped(a, h) == a

\* timer::schedule_next: sbi::set_timer(read_time() + INTERVAL)
ScheduleNext(a, h) == [a EXCEPT ![h] = TRUE]

\* _trap entered for a timer interrupt: the hardware clears the interrupt
\* enable and keeps the interrupted pc; trap_handler calls
\* handle_timer_interrupt(epc), which enters Scheduler::schedule(epc).
TimerTrap(h) ==
    /\ irq[h]
    /\ traps < TrapBudget
    /\ traps' = traps + 1
    /\ epc' = [epc EXCEPT ![h] = frame[h]]
    /\ mpie' = [mpie EXCEPT ![h] = irq[h]]
    /\ irq' = [irq EXCEPT ![h] = FALSE]
    /\ frame' = [frame EXCEPT ![h] = Frame("sc_lock")]
    /\ armed[h]
    /\ armed' = ScheduleNext([armed EXCEPT ![h] = FALSE], h)
    /\ cause' = [cause EXCEPT ![h] = "timer"]
    /\ intr' = [intr EXCEPT ![thread[h]] = frame[h]]
    /\ UNCHANGED <<unitVars, ipis, onceVars, rrVars, sched, task_state, ctx_pc, ctx_ra, idle_ra, locked,
                   heap, ticket, sip, thread, old_ctx, new_ctx, drop_task>>

\* _trap entered for a pending software interrupt: trap_handler has no arm
\* for it and returns epc (the arm `_ => epc`).
SoftwareTrap(h) ==
    /\ irq[h]
    /\ traps < TrapBudget
    /\ traps' = traps + 1
    /\ sip[h]
    /\ epc' = [epc EXCEPT ![h] = frame[h]]
    /\ mpie' = [mpie EXCEPT ![h] = irq[h]]
    /\ irq' = [irq EXCEPT ![h] = FALSE]
    /\ frame' = [frame EXCEPT ![h] = Frame("mret")]
    /\ cause' = [cause EXCEPT ![h] = "software"]
    /\ UNCHANGED <<unitVars, ipis, armed, intr, onceVars, rrVars, sched, task_state, ctx_pc, ctx_ra, idle_ra, locked,
                   heap, ticket, sip, thread, old_ctx, new_ctx, drop_task>>

\* _trap: csrw mepc, a0; registers restored; mret.
Mret(h) ==
    /\ frame[h].at = "mret"
    /\ frame' = [frame EXCEPT ![h] = epc[h]]
    /\ irq' = [irq EXCEPT ![h] = mpie[h]]
    /\ epc' = [epc EXCEPT ![h] = NullFrame]
    /\ cause' = [cause EXCEPT ![h] = "none"]
    /\ intr' = [intr EXCEPT ![thread[h]] = NullFrame]
    /\ UNCHANGED <<unitVars, ipis, armed, onceVars, rrVars, traps, sched, task_state, ctx_pc, ctx_ra, idle_ra, locked, heap, ticket,
                   mpie, sip, thread, old_ctx, new_ctx, drop_task>>

\* The boot thread's idle loop calls sbi::hart_suspend(): the registers are
\* loaded and the hart stands at the ecall instruction.
SbiCall(h) ==
    /\ frame[h].at = "run"
    /\ TaskKind(thread[h]) = "Main"
    /\ traps < TrapBudget
    /\ frame' = [frame EXCEPT ![h] = Frame("sbi")]
    /\ UNCHANGED <<unitVars, auxVars, onceVars, rrVars, traps, sched, task_state, ctx_pc, ctx_ra, idle_ra, locked, heap, ticket,
                   irq, mpie, sip, thread, epc, old_ctx, new_ctx, drop_task>>

\* epc + 4: the pc of the instruction that follows.
Advance(f) == [f EXCEPT !.ph = @ + 1]

\* _trap entered for an ecall (cause 8, 9 or 11): trap_handler calls
\* handle_exception, whose arm `8 | 9 | 11 => epc + 4` is the value returned.
EcallTrap(h) ==
    /\ frame[h].at = "sbi"
    /\ frame[h].ph = 0
    /\ traps < TrapBudget
    /\ traps' = traps + 1
    /\ epc' = [epc EXCEPT ![h] = Advance(frame[h])]
    /\ mpie' = [mpie EXCEPT ![h] = irq[h]]
    /\ irq' = [irq EXCEPT ![h] = FALSE]
    /\ frame' = [frame EXCEPT ![h] = Frame("mret")]
    /\ cause' = [cause EXCEPT ![h] = "ecall"]
    /\ UNCHANGED <<unitVars, ipis, armed, intr, onceVars, rrVars, sched, task_state, ctx_pc, ctx_ra, idle_ra, locked,
                   heap, ticket, sip, thread, old_ctx, new_ctx, drop_task>>

\* sbi::hart_suspend returns to the idle loop from the instruction after the
\* ecall.
SbiReturn(h) ==
    /\ frame[h].at = "sbi"
    /\ frame[h].ph = 1
    /\ frame' = [frame EXCEPT ![h] = Frame("run")]
    /\ UNCHANGED <<unitVars, auxVars, onceVars, rrVars, traps, sched, task_state, ctx_pc, ctx_ra, idle_ra, locked, heap, ticket,
                   irq, mpie, sip, thread, epc, old_ctx, new_ctx, drop_task>>

\* A fault handler that hands the faulting pc back to _trap.
PanicReturns(f) == [f EXCEPT !.at = "mret"]

\* panic: the message is printed, then loop { wfi }.
Panic(f) == [f EXCEPT !.at = "halt"]

\* _trap entered for an instruction access fault, illegal instruction, load
\* access fault or store access fault raised by the code a thread runs:
\* handle_exception panics.
FaultTrap(h) ==
    /\ frame[h].at = "run"
    /\ epc' = [epc EXCEPT ![h] = frame[h]]
    /\ mpie' = [mpie EXCEPT ![h] = irq[h]]
    /\ irq' = [irq EXCEPT ![h] = FALSE]
    /\ frame' = [frame EXCEPT ![h] = Panic(Frame("fault"))]
    /\ cause' = [cause EXCEPT ![h] = "fault"]
    /\ UNCHANGED <<unitVars, ipis, armed, intr, onceVars, rrVars, traps, sched, task_state, ctx_pc, ctx_ra, idle_ra, locked,
                   heap, ticket, sip, thread, old_ctx, new_ctx, drop_task>>

\* ------------------------------------------------- Scheduler::schedule

\* The old task is put back unless it is a Dead user task.
\* A schedule that puts every old task back in the queue.
KeepOldAlways(t) == TRUE

\* A schedule that drops every task it switches away from.
KeepOldNever(t) == FALSE

KeepOld(t) == task_state[t] # "Dead" \/ TaskKind(t) = "Main"

\* An old task put back at the front of the ready queue.
RequeueFront(q, old) == <<old>> \o Tail(q)

\* A ready queue read with front() where the old task is pushed back.
RequeueNoPop(q, old) == Append(q, old)

\* A schedule that forgets the old task instead of putting it back.
RequeueDrop(q, old) == Tail(q)

\* waiting_tasks after pop_front() and add_task(old_task)
Requeue(q, old) == Append(Tail(q), old)

\* A schedule whose guard lives to the end of the function.
AfterBodyHeld(keep) == "sc_switch"

\* End of the locked block: a kept old task has moved into the queue, a Dead
\* user task is dropped; then the guard is dropped, before switch_context.
AfterBody(keep) == IF keep THEN "sc_unlock" ELSE "sc_drop"

\* A schedule that returns from the empty-queue arm with its guard alive.
AfterEmptyHeld == "mret"

\* pop_front() is None: return interrupted_epc, which drops the guard.
AfterEmpty == "sc_ret"

\* Scheduler::schedule, the locked block: pop_front (None: return
\* interrupted_epc), mem::replace of current_task, the old task re-enqueued
\* with context.pc = interrupted_epc or left to be dropped, the new current
\* task set Running.
ScheduleBody(h) ==
    LET s == SchedulerOf(h)
        q == sched[s].waiting_tasks
        old == sched[s].current_task
    IN  /\ frame[h].at = "sc_body"
        /\ IF q = <<>>
           THEN /\ frame' = [frame EXCEPT ![h].at = AfterEmpty, ![h].ph = 0]
                /\ UNCHANGED <<sched, task_state, ctx_pc, old_ctx, new_ctx, drop_task>>
           ELSE /\ sched' = [sched EXCEPT ![s] =
                       [current_task |-> Head(q),
                        waiting_tasks |-> IF KeepOld(old) THEN Requeue(q, old)
                                          ELSE Tail(q)]]
                /\ ctx_pc' = IF KeepOld(old) THEN [ctx_pc EXCEPT ![old] = epc[h]]
                             ELSE ctx_pc
                /\ task_state' = [task_state EXCEPT ![Head(q)] = "Running"]
                /\ old_ctx' = [old_ctx EXCEPT ![h] = IF KeepOld(old) THEN old ELSE NoTask]
                /\ new_ctx' = [new_ctx EXCEPT ![h] = Head(q)]
                /\ drop_task' = [drop_task EXCEPT ![h] = IF KeepOld(old) THEN NoTask ELSE old]
                /\ frame' = [frame EXCEPT ![h].at = AfterBody(KeepOld(old)),
                                           ![h].ph = 0]
        /\ picks' = IF order # <<>> /\ q # <<>> THEN Append(picks, Head(q)) ELSE picks
        /\ UNCHANGED <<unitVars, auxVars, onceVars, order, traps, ctx_ra, idle_ra, locked, heap, ticket, irq,
                       mpie, sip, thread, epc>>

\* Scheduler::schedule, end of the locked block: old_task goes out of scope
\* before the guard does, so a Dead user task is released (dealloc) here.
ScheduleDrop(h) ==
    /\ frame[h].at = "sc_drop"
    /\ frame[h].ph = 1
    /\ heap' = NoTask
    /\ task_state' = [task_state EXCEPT ![drop_task[h]] = "Freed"]
    /\ drop_task' = [drop_task EXCEPT ![h] = NoTask]
    /\ intr' = [intr EXCEPT ![drop_task[h]] = NullFrame]
    /\ frame' = [frame EXCEPT ![h].at = "sc_unlock", ![h].ph = 0]
    /\ UNCHANGED <<unitVars, ipis, armed, cause, onceVars, rrVars, traps, sched, ctx_pc, ctx_ra, idle_ra, locked, ticket, irq, mpie, sip,
                   thread, epc, old_ctx, new_ctx>>

\* Where a thread continues when switch_context loads its context.
ResumeFrame(ra) ==
    CASE ra = "trampoline" -> Frame("tramp")
      [] ra = "schedule" -> Frame("po_lock")
      [] OTHER -> Frame("wild")

\* switch_context(old_ctx_ptr, new_ctx_ptr): ra, sp, s0..s11 stored into *old,
\* loaded from *new, ret.
SwitchContext(h) ==
    /\ frame[h].at = "sc_switch"
    /\ IF old_ctx[h] = NoTask
       THEN /\ idle_ra' = [idle_ra EXCEPT ![SchedulerOf(h)] = "schedule"]
            /\ UNCHANGED ctx_ra
       ELSE /\ ctx_ra' = [ctx_ra EXCEPT ![old_ctx[h]] = "schedule"]
            /\ UNCHANGED idle_ra
    /\ thread' = [thread EXCEPT ![h] = new_ctx[h]]
    /\ frame' = [frame EXCEPT ![h] = ResumeFrame(ctx_ra[new_ctx[h]])]
    /\ epc' = [epc EXCEPT ![h] = NullFrame]
    /\ old_ctx' = [old_ctx EXCEPT ![h] = NoTask]
    /\ new_ctx' = [new_ctx EXCEPT ![h] = NoTask]
    /\ cause' = [cause EXCEPT ![h] = "none"]
    /\ UNCHANGED <<unitVars, ipis, armed, intr, onceVars, rrVars, traps, sched, task_state, ctx_pc, locked, heap, ticket, irq, mpie, sip,
                   drop_task>>

\* A schedule that hands back the trampoline entry to every resumed thread.
ResumePcFresh(s) == TrampolineFrame

\* scheduler.current_task.context.pc, read under the lock taken again
ResumePc(s) == ctx_pc[sched[s].current_task]

\* Scheduler::schedule after switch_context returned on the resumed stack:
\* scheduler.lock(); scheduler.current_task.context.pc
ScheduleResume(h) ==
    /\ frame[h].at = "po_read"
    /\ epc' = [epc EXCEPT ![h] = ResumePc(SchedulerOf(h))]
    /\ frame' = [frame EXCEPT ![h].at = "po_unlock", ![h].ph = 0]
    /\ UNCHANGED <<unitVars, auxVars, onceVars, rrVars, traps, sched, task_state, ctx_pc, ctx_ra, idle_ra, locked, heap, ticket,
                   irq, mpie, sip, thread, old_ctx, new_ctx, drop_task>>

\* Task::trampoline: csrsi sstatus, 2; the callable is entered.  Here the one
\* enable bit per hart stands for both status bits (TrampolineSie tells them
\* apart).
Trampoline(h) ==
    /\ frame[h].at = "tramp"
    /\ irq' = [irq EXCEPT ![h] = TRUE]
    /\ frame' = [frame EXCEPT ![h] = Frame("run")]
    /\ UNCHANGED <<unitVars, auxVars, onceVars, rrVars, traps, sched, task_state, ctx_pc, ctx_ra, idle_ra, locked, heap, ticket,
                   mpie, sip, thread, epc, old_ctx, new_ctx, drop_task>>

\* Task::trampoline with the bits of the status register told apart:
\* csrsi sstatus, 2 sets SIE (bit 1 of sstatus); MIE (bit 3 of mstatus), which
\* Mutex::lock samples, interrupt::enable sets and mret restores, is left as
\* the trap entry cleared it.
TrampolineSie(h) ==
    /\ frame[h].at = "tramp"
    /\ sie' = [sie EXCEPT ![h] = TRUE]
    /\ frame' = [frame EXCEPT ![h] = Frame("run")]
    /\ UNCHANGED <<switchVars, bootVars, timeVars, fromVars, cpuVars, auxVars, onceVars, rrVars, traps,
                   sched, task_state, ctx_pc, ctx_ra, idle_ra, locked, heap, ticket,
                   irq, mpie, sip, thread, epc, old_ctx, new_ctx, drop_task>>

\* ------------------------------------------------------------ OnceLock

OnceValues == 1 .. MaxVal

Finish(h, res) ==
    /\ once_res' = [once_res EXCEPT ![h] = res]
    /\ once_op' = [once_op EXCEPT ![h] = IdleOp]

\* A hart calls OnceLock::set(value).
OnceSetCall(h) ==
    /\ once_op[h].pc = "idle"
    /\ \E v \in OnceValues :
           once_op' = [once_op EXCEPT ![h] = [pc |-> "set", arg |-> v,
                                              after_ready |-> once_state = "Ready"]]
    /\ once_res' = [once_res EXCEPT ![h] = NoResult]
    /\ UNCHANGED <<unitVars, auxVars, schedVars, rrVars, once_state, once_data, once_won>>

\* A set that stores Initializing without comparing.
OnceSetWinNoCas(h) ==
    /\ once_op[h].pc = "set"
    /\ once_state' = "Initializing"
    /\ once_op' = [once_op EXCEPT ![h].pc = "set_write"]
    /\ UNCHANGED <<unitVars, auxVars, schedVars, rrVars, once_data, once_res, once_won>>

\* OnceLock::set: compare_exchange(Empty, Initializing) is Ok
OnceSetWin(h) ==
    /\ once_op[h].pc = "set"
    /\ once_state = "Empty"
    /\ once_state' = "Initializing"
    /\ once_op' = [once_op EXCEPT ![h].pc = "set_write"]
    /\ UNCHANGED <<unitVars, auxVars, schedVars, rrVars, once_data, once_res, once_won>>

\* A losing set that has written its value into the cell all the same.
OnceSetRejectWrites(h) ==
    /\ once_op[h].pc = "set"
    /\ once_state # "Empty"
    /\ once_data' = Some(once_op[h].arg)
    /\ Finish(h, [kind |-> "err", val |-> Some(once_op[h].arg),
                  after_ready |-> once_op[h].after_ready,
                  at_ready |-> once_state = "Ready"])
    /\ UNCHANGED <<unitVars, auxVars, schedVars, rrVars, once_state, once_won>>

\* OnceLock::set: compare_exchange(Empty, Initializing) is Err: Err(value)
OnceSetReject(h) ==
    /\ once_op[h].pc = "set"
    /\ once_state # "Empty"
    /\ Finish(h, [kind |-> "err", val |-> Some(once_op[h].arg),
                  after_ready |-> once_op[h].after_ready,
                  at_ready |-> once_state = "Ready"])
    /\ UNCHANGED <<unitVars, auxVars, schedVars, rrVars, once_state, once_data, once_won>>

\* OnceLock::set: *self.data.get() = Some(value)
OnceSetWrite(h) ==
    /\ once_op[h].pc = "set_write"
    /\ once_data' = Some(once_op[h].arg)
    /\ once_op' = [once_op EXCEPT ![h].pc = "set_store"]
    /\ UNCHANGED <<unitVars, auxVars, schedVars, rrVars, once_state, once_res, once_won>>

\* OnceLock::set: state.store(Ready, Release); Ok(())
OnceSetStore(h) ==
    /\ once_op[h].pc = "set_store"
    /\ once_state' = "Ready"
    /\ once_won' = Append(once_won, [hart |-> h, v |-> once_op[h].arg])
    /\ Finish(h, [kind |-> "ok", val |-> None,
                  after_ready |-> once_op[h].after_ready,
                  at_ready |-> once_state = "Ready"])
    /\ UNCHANGED <<unitVars, auxVars, schedVars, rrVars, once_data>>

\* A hart calls OnceLock::get().
OnceGetCall(h) ==
    /\ once_op[h].pc = "idle"
    /\ once_op' = [once_op EXCEPT ![h] = [pc |-> "get", arg |-> 0,
                                          after_ready |-> once_state = "Ready"]]
    /\ once_res' = [once_res EXCEPT ![h] = NoResult]
    /\ UNCHANGED <<unitVars, auxVars, schedVars, rrVars, once_state, once_data, once_won>>

\* OnceLock::get: state.load(Acquire) == Ready, or else None
OnceGetLoad(h) ==
    /\ once_op[h].pc = "get"
    /\ IF once_state = "Ready"
       THEN /\ once_op' = [once_op EXCEPT ![h].pc = "get_read"]
            /\ UNCHANGED once_res
       ELSE Finish(h, [kind |-> "get", val |-> None,
                       after_ready |-> once_op[h].after_ready,
                       at_ready |-> FALSE])
    /\ UNCHANGED <<unitVars, auxVars, schedVars, rrVars, once_state, once_data, once_won>>

\* OnceLock::get: (*self.data.get()).as_ref()
OnceGetRead(h) ==
    /\ once_op[h].pc = "get_read"
    /\ Finish(h, [kind |-> "get", val |-> once_data,
                  after_ready |-> once_op[h].after_ready,
                  at_ready |-> once_state = "Ready"])
    /\ UNCHANGED <<unitVars, auxVars, schedVars, rrVars, once_state, once_data, once_won>>

\* A hart calls OnceLock::wait().
OnceWaitCall(h) ==
    /\ once_op[h].pc = "idle"
    /\ once_op' = [once_op EXCEPT ![h] = [pc |-> "wait", arg |-> 0,
                                          after_ready |-> once_state = "Ready"]]
    /\ once_res' = [once_res EXCEPT ![h] = NoResult]
    /\ UNCHANGED <<unitVars, auxVars, schedVars, rrVars, once_state, once_data, once_won>>

\* A wait whose get takes every state but Empty for Ready.
OnceWaitLoadEarly(h) ==
    /\ once_op[h].pc = "wait"
    /\ IF once_state # "Empty"
       THEN once_op' = [once_op EXCEPT ![h].pc = "wait_read"]
       ELSE UNCHANGED once_op
    /\ UNCHANGED <<unitVars, auxVars, schedVars, rrVars, once_state, once_data, once_res, once_won>>

\* OnceLock::wait: the load of self.get(); on None, spin_loop() and again
OnceWaitLoad(h) ==
    /\ once_op[h].pc = "wait"
    /\ IF once_state = "Ready"
       THEN once_op' = [once_op EXCEPT ![h].pc = "wait_read"]
       ELSE UNCHANGED once_op
    /\ UNCHANGED <<unitVars, auxVars, schedVars, rrVars, once_state, once_data, once_res, once_won>>

\* OnceLock::wait: if let Some(val) = self.get() { return val }
OnceWaitRead(h) ==
    /\ once_op[h].pc = "wait_read"
    /\ IF once_data.some
       THEN Finish(h, [kind |-> "wait", val |-> once_data,
                       after_ready |-> once_op[h].after_ready,
                       at_ready |-> once_state = "Ready"])
       ELSE /\ once_op' = [once_op EXCEPT ![h].pc = "wait"]
            /\ UNCHANGED once_res
    /\ UNCHANGED <<unitVars, auxVars, schedVars, rrVars, once_state, once_data, once_won>>

\* ------------------------------------------------------- switch_context

\* A switch_context that stores nothing into *old.
SaveNothing(c, r) == c

\* sd ra, 0*8(a0) .. sd s11, 13*8(a0): the slots of *old are overwritten, pc
\* (offset 14*8) is not.
SaveCallee(c, r) == [c EXCEPT !.r = r]

\* ld ra, 0*8(a1) .. ld s11, 13*8(a1)
RestoreCallee(c) == c.r

\* switch_context(old_ptr, new_ptr) called with two distinct contexts: the
\* stores, then the loads, then ret.
SwitchCall ==
    /\ Len(calls) < 2
    /\ \E old \in ContextNames, new \in ContextNames :
        /\ old # new
        /\ LET stored == [mem EXCEPT ![old] = SaveCallee(mem[old], regs)]
           IN  /\ mem' = stored
               /\ regs' = RestoreCallee(stored[new])
        /\ calls' = Append(calls, <<old, new>>)
    /\ UNCHANGED <<regs0, outsideSwitch>>

\* Any registers and any contents of the two contexts, before the first call.
InitSwitch ==
    /\ InitKernel
    /\ BootIdle
    /\ TimeIdle
    /\ FromIdle
    /\ StatusIdle
    /\ CpuIdle
    /\ regs \in [Slots -> RegValues]
    /\ mem \in [ContextNames -> Contexts]
    /\ calls = <<>>
    /\ regs0 = regs

\* ------------------------------------------------------------------ boot

\* _start: lw t1, BOOT_STATUS; bnez t1, 5f.  Not taken: the boot stack, BSS
\* zeroed, kmain entered with a1 as received (the device tree pointer, never
\* 0).  Taken: sp = a1, a1 = 0, kmain entered, whose else branch spins on the
\* flag.
EntryBranch(p) ==
    /\ hpc[p].at = "_start"
    /\ hpc' = [hpc EXCEPT ![p] = IF boot_status # ColdBoot THEN BootAt("gate")
                                 ELSE BootAt("heap_init")]
    /\ UNCHANGED <<outsideBoot, fdt_cpus, boot_hart, boot_status, heap_claimed, id_map, cpu_tab,
                   tp, starts, writers, early_alloc>>

\* kmain, opaque != 0: heap::init()
HeapInit(p) ==
    /\ hpc[p].at = "heap_init"
    /\ heap_claimed' = TRUE
    /\ hpc' = [hpc EXCEPT ![p] = BootAt("parse")]
    /\ UNCHANGED <<outsideBoot, fdt_cpus, boot_hart, boot_status, id_map, cpu_tab, tp, starts,
                   writers, early_alloc>>

\* parse_hart_count: the reg of every cpu node pushed in node order; a tree
\* without cpu nodes yields the one id 0.
PhysicalIds(cpus) == IF cpus = <<>> THEN <<0>> ELSE cpus

\* init_cpu_vec: fdt::parse_hart_count fills a Vec (allocating) and publishes
\* it with HART_ID_MAP.call_once.
ParseHartCount(p) ==
    /\ hpc[p].at = "parse"
    /\ early_alloc' = (early_alloc \/ ~heap_claimed)
    /\ id_map' = IF id_map = <<>> THEN PhysicalIds(fdt_cpus) ELSE id_map
    /\ hpc' = [hpc EXCEPT ![p] = BootAt("cpu_vec")]
    /\ UNCHANGED <<outsideBoot, fdt_cpus, boot_hart, boot_status, heap_claimed, cpu_tab, tp,
                   starts, writers>>

\* A kmain that goes from init_cpu_vec straight to start_harts.
SkipStore == "set_zero"

\* kmain: init_cpu_vec(fdt_ptr, hart_id); BOOT_STATUS.store(..); start_harts()
AfterCpuVec == "store"

\* init_cpu_vec: one Cpu per map entry, physical_id = fdt::to_physical(i),
\* logical_id = i, stacks allocated; CPU_VEC.call_once.
InitCpuVec(p) ==
    /\ hpc[p].at = "cpu_vec"
    /\ early_alloc' = (early_alloc \/ ~heap_claimed)
    /\ cpu_tab' = IF cpu_tab = <<>>
                  THEN [i \in 1 .. Len(id_map) |->
                           [physical_id |-> id_map[i], logical_id |-> i - 1]]
                  ELSE cpu_tab
    /\ hpc' = [hpc EXCEPT ![p] = BootAt(AfterCpuVec)]
    /\ UNCHANGED <<outsideBoot, fdt_cpus, boot_hart, boot_status, heap_claimed, id_map, tp,
                   starts, writers>>

\* A kmain that stores the stage the flag already has.
StoredStageCold == ColdBoot

\* kmain: the stage it stores, BootStage::BssInitialized
StoredStage == BssInitialized

\* kmain: BOOT_STATUS.store(BootStage::BssInitialized, Release)
StoreStatus(p) ==
    /\ hpc[p].at = "store"
    /\ boot_status' = StoredStage
    /\ writers' = writers \cup {p}
    /\ hpc' = [hpc EXCEPT ![p] = BootAt("set_zero")]
    /\ UNCHANGED <<outsideBoot, fdt_cpus, boot_hart, heap_claimed, id_map, cpu_tab, tp, starts,
                   early_alloc>>

\* start_harts: cpus.split_first(); cpu_zero.set()
StartHartsSet(p) ==
    /\ hpc[p].at = "set_zero"
    /\ cpu_tab # <<>>
    /\ tp' = [tp EXCEPT ![p] = cpu_tab[1].logical_id]
    /\ hpc' = [hpc EXCEPT ![p] = [at |-> "start_loop", cpu |-> 2]]
    /\ UNCHANGED <<outsideBoot, fdt_cpus, boot_hart, boot_status, heap_claimed, id_map, cpu_tab,
                   starts, writers, early_alloc>>

\* A start_harts that gives up at the first failure.
StopAtFailure(i, ok) == IF ok THEN i + 1 ELSE Len(cpu_tab) + 1

\* start_harts: a failure is printed and the loop goes on with the next cpu.
NextCpu(i, ok) == i + 1

\* start_harts: sbi::hart_start(cpu.physical_id, _start, cpu.stack_top) for the
\* next of rem_cpus.  The firmware starts the hart at _start only if it is
\* stopped, and may refuse in any case.
HartStart(p) ==
    /\ hpc[p].at = "start_loop"
    /\ hpc[p].cpu <= Len(cpu_tab)
    /\ LET target == cpu_tab[hpc[p].cpu].physical_id
       IN  \E ok \in BOOLEAN :
            /\ ok => hpc[target].at = "stopped"
            /\ starts' = Append(starts, [id |-> target, ok |-> ok])
            /\ hpc' = [hpc EXCEPT ![p].cpu = NextCpu(hpc[p].cpu, ok),
                                  ![target] = IF ok THEN BootAt("_start") ELSE @]
    /\ UNCHANGED <<outsideBoot, fdt_cpus, boot_hart, boot_status, heap_claimed, id_map, cpu_tab,
                   tp, writers, early_alloc>>

\* start_harts after the loop: sp = cpu_zero.stack_top; jr hart_setup
StartHartsJump(p) ==
    /\ hpc[p].at = "start_loop"
    /\ hpc[p].cpu > Len(cpu_tab)
    /\ hpc' = [hpc EXCEPT ![p] = BootAt("hart_setup")]
    /\ UNCHANGED <<outsideBoot, fdt_cpus, boot_hart, boot_status, heap_claimed, id_map, cpu_tab,
                   tp, starts, writers, early_alloc>>

\* kmain, opaque == 0: while BOOT_STATUS.load(Acquire) < BssInitialized { spin }
GateOpen(s) == ~(s < BssInitialized)

KmainGate(p) ==
    /\ hpc[p].at = "gate"
    /\ GateOpen(boot_status)
    /\ hpc' = [hpc EXCEPT ![p] = BootAt("lookup")]
    /\ UNCHANGED <<outsideBoot, fdt_cpus, boot_hart, boot_status, heap_claimed, id_map, cpu_tab,
                   tp, starts, writers, early_alloc>>

\* fdt::to_logical: the position of the physical id in HART_ID_MAP, from 0
\* (NoCpu: not in the map, where the code panics).
ToLogical(p) ==
    IF \E i \in 1 .. Len(id_map) : id_map[i] = p
    THEN (CHOOSE i \in 1 .. Len(id_map) :
              id_map[i] = p /\ \A j \in 1 .. (i - 1) : id_map[j] # p) - 1
    ELSE NoCpu

\* kmain, opaque == 0: CPU_VEC.wait().get(fdt::to_logical(hart_id)).unwrap();
\* cpu.set().  Both waits spin until the cells are published.
KmainLookup(p) ==
    /\ hpc[p].at = "lookup"
    /\ cpu_tab # <<>>
    /\ id_map # <<>>
    /\ ToLogical(p) # NoCpu
    /\ tp' = [tp EXCEPT ![p] = cpu_tab[ToLogical(p) + 1].logical_id]
    /\ hpc' = [hpc EXCEPT ![p] = BootAt("hart_setup")]
    /\ UNCHANGED <<outsideBoot, fdt_cpus, boot_hart, boot_status, heap_claimed, id_map, cpu_tab,
                   starts, writers, early_alloc>>

\* hart_setup: Cpu::get(), interrupt::init, plic::init, timer::schedule_next,
\* interrupt::enable; the hart is in the runtime.
HartSetup(p) ==
    /\ hpc[p].at = "hart_setup"
    /\ hpc' = [hpc EXCEPT ![p] = BootAt("online")]
    /\ UNCHANGED <<outsideBoot, fdt_cpus, boot_hart, boot_status, heap_claimed, id_map, cpu_tab,
                   tp, starts, writers, early_alloc>>

\* The cpu nodes of a device tree: any harts, each named once, in any order;
\* none at all for a broken tree.
DeviceTrees ==
    {f \in UNION {[1 .. n -> BootHarts] : n \in 0 .. NBootHarts} :
        \A i, j \in 1 .. Len(f) : f[i] = f[j] => i = j}

\* The firmware enters _start on one hart, which the device tree names unless
\* it names none, with the other harts stopped.
InitBoot ==
    /\ InitKernel
    /\ SwitchInit
    /\ TimeIdle
    /\ FromIdle
    /\ StatusIdle
    /\ CpuIdle
    /\ fdt_cpus \in DeviceTrees
    /\ boot_hart \in BootHarts
    /\ fdt_cpus # <<>> => \E i \in 1 .. Len(fdt_cpus) : fdt_cpus[i] = boot_hart
    /\ boot_status = ColdBoot
    /\ hpc = [p \in BootHarts |-> IF p = boot_hart THEN BootAt("_start") ELSE BootAt("stopped")]
    /\ heap_claimed = FALSE
    /\ id_map = <<>>
    /\ cpu_tab = <<>>
    /\ tp = [p \in BootHarts |-> NoCpu]
    /\ starts = <<>>
    /\ writers = {}
    /\ early_alloc = FALSE

\* ------------------------------------------------------------ read_time

Word == 2 ^ WordBits

\* csr_read!("timeh"), csr_read!("time"): the halves of the counter.
TimeH(t) == t \div Word

TimeL(t) == t % Word

\* The counter advances by one, at any moment.
Tick ==
    /\ time < MaxTime
    /\ time' = time + 1
    /\ held' = IF rt.pc = "idle" THEN held ELSE held \cup {time + 1}
    /\ UNCHANGED <<rt, rt_res, outsideTime>>

\* read_time is called.
ReadTimeCall ==
    /\ rt.pc = "idle"
    /\ Len(rt_res) < MaxReads
    /\ rt' = [rt EXCEPT !.pc = "hi"]
    /\ held' = {time}
    /\ UNCHANGED <<time, rt_res, outsideTime>>

\* let hi = csr_read!("timeh")
ReadHi ==
    /\ rt.pc = "hi"
    /\ rt' = [rt EXCEPT !.pc = "lo", !.hi = TimeH(time)]
    /\ UNCHANGED <<time, rt_res, held, outsideTime>>

\* let lo = csr_read!("time")
ReadLo ==
    /\ rt.pc = "lo"
    /\ rt' = [rt EXCEPT !.pc = "check", !.lo = TimeL(time)]
    /\ UNCHANGED <<time, rt_res, held, outsideTime>>

\* A read_time that never retries.
SameHighAlways(hi, again) == TRUE

\* hi == csr_read!("timeh")
SameHigh(hi, again) == hi = again

\* if hi == csr_read!("timeh") { return (hi << 32) | lo }, else the loop
\* starts again.
ReadCheck ==
    /\ rt.pc = "check"
    /\ IF SameHigh(rt.hi, TimeH(time))
       THEN /\ rt_res' = Append(rt_res, rt.hi * Word + rt.lo)
            /\ rt' = [rt EXCEPT !.pc = "idle"]
       ELSE /\ rt' = [rt EXCEPT !.pc = "hi"]
            /\ UNCHANGED rt_res
    /\ UNCHANGED <<time, held, outsideTime>>

\* The counter at any value, no call made yet.
InitTime ==
    /\ InitKernel
    /\ SwitchInit
    /\ BootIdle
    /\ FromIdle
    /\ StatusIdle
    /\ CpuIdle
    /\ time \in 0 .. MaxTime
    /\ rt = [pc |-> "idle", hi |-> 0, lo |-> 0]
    /\ rt_res = <<>>
    /\ held = {}

\* ------------------------------------------------------------ Task::from

SRegs == 0 .. 11

\* Context::default()
DefaultContext == [ra |-> 0, sp |-> 0, s |-> [i \in SRegs |-> 0], pc |-> 0]

\* A stack top used as it is.
AlignNone(a) == a

\* stack_top_unaligned & !0xF
AlignDown(a) == a - (a % 16)

\* impl From<Box<dyn FnOnce()>> for Task: the stack top aligned down, ra and
\* pc the trampoline, s1 and s2 the raw parts of the callable, the rest of
\* the context default.
FreshTask(stack_bottom, data_ptr, vtable_ptr) ==
    LET stack_top_unaligned == stack_bottom + STACK_SIZE
        sp == AlignDown(stack_top_unaligned)
        ctx == [DefaultContext EXCEPT !.ra = TrampolineEntry,
                                      !.pc = TrampolineEntry,
                                      !.sp = sp,
                                      !.s[1] = data_ptr,
                                      !.s[2] = vtable_ptr]
    IN  [context |-> ctx, kind |-> "User", stack |-> stack_bottom, state |-> "Ready"]

\* Task::from(entry_point)
TaskFrom ==
    /\ made = <<>>
    /\ made' = <<FreshTask(from_in.stack_bottom, from_in.data_ptr, from_in.vtable_ptr)>>
    /\ UNCHANGED <<from_in, outsideFrom>>

Pointers == 1 .. MaxPtr

\* A callable and the address the allocator gives the stack: a byte array
\* has alignment 1.
InitFrom ==
    /\ InitKernel
    /\ SwitchInit
    /\ BootIdle
    /\ TimeIdle
    /\ from_in \in [stack_bottom : 1 .. MaxBase, data_ptr : Pointers, vtable_ptr : Pointers]
    /\ made = <<>>
    /\ StatusIdle
    /\ CpuIdle

\* ---------------------------------------------------------- init_cpu_vec

\* The addresses of the pages an allocation of `size` bytes at `ptr` covers.
PagesOf(ptr, size) == {ptr + PAGE * k : k \in 0 .. (size \div PAGE) - 1}

\* The pages the allocations made so far cover.
PagesTaken ==
    UNION {PagesOf(cpu_alloc[i].stack_ptr, KERNEL_STACK_SIZE)
             \cup PagesOf(cpu_alloc[i].trap_ptr, TRAP_STACK_SIZE) :
           i \in 1 .. Len(cpu_alloc)}

\* What alloc(layout) can return: a page-aligned block that is free.
Allocs(size, taken) ==
    {PAGE * k : k \in {n \in 1 .. MaxPage : PagesOf(PAGE * n, size) \cap taken = {}}}

\* The Cpu the closure of init_cpu_vec builds for index i from the two
\* pointers alloc returned (physical_id and scheduler, which do not depend on
\* them, are left out).
CpuRecord(i, stack_ptr, trap_ptr) ==
    [logical_id |-> i,
     stack_top |-> stack_ptr + KERNEL_STACK_SIZE,
     trap_stack_top |-> trap_ptr + KERNEL_STACK_SIZE]

\* init_cpu_vec, one turn of (0..count).map(..): the kernel stack and the trap
\* stack are allocated and the Cpu is built.
CpuBuild ==
    /\ Len(cpu_vec) < cpu_count
    /\ \E stack_ptr \in Allocs(KERNEL_STACK_SIZE, PagesTaken) :
         \E trap_ptr \in Allocs(TRAP_STACK_SIZE,
                                PagesTaken \cup PagesOf(stack_ptr, KERNEL_STACK_SIZE)) :
            /\ cpu_alloc' = Append(cpu_alloc, [stack_ptr |-> stack_ptr, trap_ptr |-> trap_ptr])
            /\ cpu_vec' = Append(cpu_vec, CpuRecord(Len(cpu_vec), stack_ptr, trap_ptr))
    /\ UNCHANGED <<cpu_count, outsideCpu>>

\* init_cpu_vec is called with the count parse_hart_count returned.
InitCpu ==
    /\ InitKernel
    /\ SwitchInit
    /\ BootIdle
    /\ TimeIdle
    /\ FromIdle
    /\ StatusIdle
    /\ cpu_count \in 1 .. MaxCpus
    /\ cpu_alloc = <<>>
    /\ cpu_vec = <<>>

\* ------------------------------------------------------------ steady set

UserTasks == {t \in Tasks : TaskKind(t) = "User"}

\* The ready queues add_task can have built from user tasks: every order of
\* every subset.
ReadyQueues ==
    {q \in UNION {[1 .. n -> UserTasks] : n \in 0 .. Cardinality(UserTasks)} :
        \A i, j \in 1 .. Len(q) : q[i] = q[j] => i = j}

\* Hart 0 after its spawns are over: it runs its boot thread, and the ready
\* queue of its scheduler holds user tasks that have not run yet, as
\* Task::from and add_task leave them.
InitRR ==
    /\ \E q \in ReadyQueues :
        /\ sched = [h \in Harts |-> [current_task |-> MainTask(h),
                                     waiting_tasks |-> IF h = 0 THEN q ELSE <<>>]]
        /\ task_state = [t \in Tasks |->
                           IF t < NHarts \/ (\E i \in 1 .. Len(q) : q[i] = t)
                           THEN "Ready" ELSE "Absent"]
        /\ ctx_pc = [t \in Tasks |-> IF \E i \in 1 .. Len(q) : q[i] = t
                                     THEN TrampolineFrame ELSE NullFrame]
        /\ ctx_ra = [t \in Tasks |-> IF \E i \in 1 .. Len(q) : q[i] = t
                                     THEN "trampoline" ELSE "zero"]
        /\ order = q \o <<MainTask(0)>>
    /\ idle_ra = [h \in Harts |-> "zero"]
    /\ locked = [h \in Harts |-> NoHart]
    /\ heap = NoTask
    /\ ticket = MaxSpawn
    /\ irq = [h \in Harts |-> TRUE]
    /\ mpie = [h \in Harts |-> TRUE]
    /\ sip = [h \in Harts |-> FALSE]
    /\ frame = [h \in Harts |-> Frame("run")]
    /\ thread = [h \in Harts |-> MainTask(h)]
    /\ epc = [h \in Harts |-> NullFrame]
    /\ old_ctx = [h \in Harts |-> NoTask]
    /\ new_ctx = [h \in Harts |-> NoTask]
    /\ drop_task = [h \in Harts |-> NoTask]
    /\ traps = 0
    /\ picks = <<>>
    /\ ipis = [k \in Tickets |-> <<>>]
    /\ armed = [h \in Harts |-> TRUE]
    /\ cause = [h \in Harts |-> "none"]
    /\ intr = [t \in Tasks |-> NullFrame]
    /\ OnceInit
    /\ UnitInit

\* ------------------------------------------------------------ start_harts

\* start_harts: sbi::hart_start(physical_id, _start, stack_top) for every cpu
\* but the first; a hart whose start fails is reported and stays in the CPU
\* table, with its scheduler, but never executes: it takes no trap.
InitStart ==
    /\ \E up \in [Harts -> BOOLEAN] :
        /\ up[0]
        /\ frame = [h \in Harts |-> IF up[h] THEN Frame("run") ELSE Frame("off")]
        /\ irq = up
        /\ armed = up
        /\ cause = [h \in Harts |-> "none"]
        /\ intr = [t \in Tasks |-> NullFrame]
    /\ sched = [h \in Harts |-> [current_task |-> MainTask(h), waiting_tasks |-> <<>>]]
    /\ task_state = [t \in Tasks |-> IF t < NHarts THEN "Ready" ELSE "Absent"]
    /\ ctx_pc = [t \in Tasks |-> NullFrame]
    /\ ctx_ra = [t \in Tasks |-> "zero"]
    /\ idle_ra = [h \in Harts |-> "zero"]
    /\ locked = [h \in Harts |-> NoHart]
    /\ heap = NoTask
    /\ ticket = 0
    /\ mpie = [h \in Harts |-> TRUE]
    /\ sip = [h \in Harts |-> FALSE]
    /\ thread = [h \in Harts |-> MainTask(h)]
    /\ epc = [h \in Harts |-> NullFrame]
    /\ old_ctx = [h \in Harts |-> NoTask]
    /\ new_ctx = [h \in Harts |-> NoTask]
    /\ drop_task = [h \in Harts |-> NoTask]
    /\ traps = 0
    /\ order = <<>>
    /\ picks = <<>>
    /\ ipis = [k \in Tickets |-> <<>>]
    /\ OnceInit
    /\ UnitInit

\* ------------------------------------------------------------ properties

Live == {"Ready", "Running", "Dead"}

Queue(h) == sched[h].waiting_tasks

QueueSet(h) == {Queue(h)[i] : i \in 1 .. Len(Queue(h))}

\* The tasks a scheduler owns: its current task and its ready queue.
Owned(h) == {sched[h].current_task} \cup QueueSet(h)

\* C2: on every hart exactly one task owned by the scheduler is Running, the
\* current task, and every task in its ready queue is Ready or Dead.
AtMostOneRunning ==
    \A h \in Harts :
        /\ task_state[sched[h].current_task] = "Running"
        /\ \A t \in QueueSet(h) : task_state[t] \in {"Ready", "Dead"}

\* How many times the schedulers reference a task: as current task or at a
\* position of a ready queue.
Occurrences(t) ==
    Cardinality({h \in Harts : sched[h].current_task = t})
    + Cardinality({p \in Harts \X (1 .. NoTask) :
                     p[2] <= Len(Queue(p[1])) /\ Queue(p[1])[p[2]] = t})

\* A task held by an operation in progress: built by spawn and not yet
\* enqueued, or taken out by schedule and not yet dropped.
InTransit(t) ==
    \E h \in Harts :
        \/ drop_task[h] = t
        \/ frame[h].at = "sp_add" /\ TaskOfTicket(frame[h].tkt) = t

\* C3: no task is referenced twice by the schedulers; every task that exists
\* and is not held by an operation in progress is referenced exactly once,
\* and a task that does not exist (not created, or destroyed) by none.
NoDoubleOwnership ==
    \A t \in Tasks :
        LET n == Occurrences(t)
        IN  /\ n <= 1
            /\ (task_state[t] \in Live /\ ~InTransit(t)) => n = 1
            /\ task_state[t] \notin Live => n = 0

\* C3 witness: after spawns onto both harts, schedules and an exit, the task
\* of ticket 0 has been destroyed and the task of ticket 1 runs on hart 1.
NoDoubleOwnershipWitness ==
    /\ task_state[TaskOfTicket(0)] = "Freed"
    /\ sched[1].current_task = TaskOfTicket(1)

\* C4: a Main task is never Dead, and schedule never drops one.
MainImmortal ==
    \A h \in Harts :
        /\ task_state[MainTask(h)] \notin {"Dead", "Freed"}
        /\ TaskKind(drop_task[h]) # "Main" \/ drop_task[h] = NoTask

\* C4 witness: a user task has exited and been dropped by schedule, and the
\* Main task of that hart is current again.
MainImmortalWitness ==
    \E h \in Harts :
        /\ \E t \in Tasks : task_state[t] = "Freed"
        /\ sched[h].current_task = MainTask(h)
        /\ task_state[MainTask(h)] = "Running"
        /\ frame[h].at = "run"

\* The positions between the return of Mutex::lock and the drop of its guard.
CriticalSites == {"sp_from", "sp_add", "ex_mark", "sc_body", "sc_drop", "po_read"}

HoldsGuard(h) ==
    \/ frame[h].at \in CriticalSites
    \/ frame[h].at \in UnlockSites /\ frame[h].ph = 0

\* The step of hart h that finishes the drop of a guard.
GuardDropped(h) ==
    /\ frame[h].at \in UnlockSites
    /\ frame[h].ph = 1
    /\ frame'[h] # frame[h]

\* C5: while a hart holds a guard its local interrupts are disabled, and when
\* the guard has been dropped its interrupt-enable state is the one that
\* lock had sampled.
LockDisablesIrq ==
    /\ [](\A h \in Harts : HoldsGuard(h) => ~irq[h])
    /\ [][\A h \in Harts : GuardDropped(h) => irq'[h] = frame[h].ie]_vars

\* C5 witness: one hart has dropped the guard of spawn, taken with interrupts
\* enabled, and has them enabled; another has dropped the guard of schedule,
\* taken in the trap handler, and has them disabled.
LockDisablesIrqWitness ==
    \E h, g \in Harts :
        /\ frame[h].at = "sp_ipi" /\ irq[h]
        /\ frame[g].at = "sc_switch" /\ ~irq[g]

Holds(h, s) == HoldsGuard(h) /\ LockTarget(h) = s

\* A mutation of scheduler s: of its queue or current task, or of the state
\* or the saved pc of a task it owns.
SchedChanged(s) ==
    \/ sched'[s] # sched[s]
    \/ \E t \in Owned(s) :
           task_state'[t] # task_state[t] \/ ctx_pc'[t] # ctx_pc[t]

\* C6: at most one hart holds a scheduler's lock, and every mutation of a
\* scheduler is a step of the hart that holds its lock.
MutualExclusion ==
    /\ [](\A s \in Harts :
            /\ Cardinality({h \in Harts : Holds(h, s)}) <= 1
            /\ \A h \in Harts : Holds(h, s) => locked[s] = h)
    /\ [][\A s \in Harts :
            SchedChanged(s) =>
                \E h \in Harts : Holds(h, s) /\ frame'[h] # frame[h]]_vars

\* C6 witness: hart 0 holds the lock of hart 1's scheduler in spawn, about to
\* enqueue, while hart 1 spins on it in its trap handler.
MutualExclusionWitness ==
    /\ frame[0].at = "sp_add" /\ LockTarget(0) = 1
    /\ frame[1].at = "sc_lock" /\ frame[1].ph = 2

\* C7: a hart at switch_context, at the IPI send of spawn, or returning from
\* the trap (the early return of schedule included) holds no scheduler lock.
LockingDiscipline ==
    \A h \in Harts :
        frame[h].at \in {"sc_switch", "sp_ipi", "mret"} =>
            \A s \in Harts : locked[s] # h

\* C7 witness: one hart is at the IPI send of a spawn onto another hart while
\* another is at switch_context.
LockingDisciplineWitness ==
    \E h, g \in Harts :
        /\ frame[h].at = "sp_ipi" /\ TargetHart(frame[h].tkt) # LogicalId(h)
        /\ frame[g].at = "sc_switch"

\* Hart h waits for the allocator's lock with interrupts disabled while the
\* holder is a suspended task of its own scheduler: nothing can run the
\* holder, so the wait never ends.
SpinsForever(h) ==
    /\ frame[h].at \in HeapSites
    /\ frame[h].ph = 0
    /\ ~irq[h]
    /\ heap # NoTask
    /\ heap \in Owned(h)
    /\ \A g \in Harts : thread[g] # heap

\* C8: no hart spins forever waiting for a lock.
DeadlockFree == \A h \in Harts : ~SpinsForever(h)

\* C1: with a steady set of N tasks on one hart, the i-th task schedule makes
\* current is the i-th of the insertion order repeated cyclically, so every
\* window of N consecutive picks holds each of the N tasks exactly once; the
\* set the scheduler owns stays the same, and a sole task stays current.
RoundRobin ==
    LET N == Len(order)
    IN  order # <<>> =>
            /\ \A i \in 1 .. Len(picks) : picks[i] = order[((i - 1) % N) + 1]
            /\ \A i \in 1 .. Len(picks) :
                   i + N - 1 <= Len(picks) =>
                       /\ {picks[j] : j \in i .. (i + N - 1)}
                              = {order[k] : k \in 1 .. N}
                       /\ \A j, k \in i .. (i + N - 1) :
                              picks[j] = picks[k] => j = k
            /\ Owned(0) = {order[k] : k \in 1 .. N}
            /\ Len(Queue(0)) = N - 1
            /\ picks # <<>> => sched[0].current_task = picks[Len(picks)]
            /\ N = 1 => picks = <<>>

\* C1 witness: three tasks, and schedule has picked four times: the first
\* task picked has come round again.
RoundRobinWitness ==
    /\ Len(order) = 3
    /\ Len(picks) = 4
    /\ frame[0].at = "run"

\* C9: at most one set returns Ok, and exactly one once the cell is Ready or
\* once some set has been rejected and no call is in progress; the stored
\* value is the winner's and, once Ready, neither it nor the state changes;
\* a get that started after Ready was stored returns the winner's value; a
\* get that completed with the cell not Ready returned None.
OncePublication ==
    /\ [](/\ Len(once_won) <= 1
          /\ once_state = "Ready" =>
                 Len(once_won) = 1 /\ once_data = Some(once_won[1].v)
          /\ \A h \in Harts :
                 /\ once_res[h].kind = "ok" =>
                        once_won # <<>> /\ once_won[1].hart = h
                 /\ (once_res[h].kind = "get" /\ once_res[h].after_ready) =>
                        once_won # <<>> /\ once_res[h].val = Some(once_won[1].v)
                 /\ (once_res[h].kind = "get" /\ ~once_res[h].at_ready) =>
                        once_res[h].val = None
          /\ ((\A h \in Harts : once_op[h].pc = "idle")
                 /\ (\E h \in Harts : once_res[h].kind \in {"ok", "err"})) =>
                 Len(once_won) = 1)
    /\ [][once_state = "Ready" =>
              once_state' = "Ready" /\ once_data' = once_data]_vars

\* C9 witness: one hart's set has won, a get that another hart started after
\* Ready was stored has returned the winner's value, and a later set of the
\* winner has been rejected.
OncePublicationWitness ==
    \E h, g \in Harts :
        /\ h # g
        /\ once_won # <<>> /\ once_won[1].hart = h
        /\ once_res[g].kind = "get"
        /\ once_res[g].after_ready
        /\ once_res[g].val = Some(once_won[1].v)
        /\ once_res[h].kind = "err"

\* The step in which hart h loses the compare-and-swap of set.
LosesCas(h) ==
    /\ once_op[h].pc = "set"
    /\ once_state # "Empty"
    /\ once_op'[h] # once_op[h]

\* C10: a set that loses the compare-and-swap returns Err carrying its own
\* argument and changes neither the state nor the data of the cell.
OnceRejection ==
    [][\A h \in Harts :
          LosesCas(h) =>
              /\ once_res'[h].kind = "err"
              /\ once_res'[h].val = Some(once_op[h].arg)
              /\ once_state' = once_state
              /\ once_data' = once_data]_vars

\* C10 witness: a set has been rejected while the winner, with another
\* value, had written its value and not yet stored Ready.
OnceRejectionWitness ==
    \E h, g \in Harts :
        /\ once_res[h].kind = "err"
        /\ once_op[g].pc = "set_store"
        /\ once_state = "Initializing"
        /\ once_res[h].val # once_data

\* Hart h is inside a call of wait.
Waiting(h) == once_op[h].pc \in {"wait", "wait_read"}

\* Some call of set has won the compare-and-swap or is about to try it.
SetCalled ==
    \/ once_state # "Empty"
    \/ \E g \in Harts : once_op[g].pc = "set"

\* C11: a wait returns only with the cell Ready, and returns the value of the
\* winning set; once some hart has called set, every wait in progress
\* eventually returns.
OnceWaitReturns ==
    /\ [](\A h \in Harts :
            once_res[h].kind = "wait" =>
                /\ once_res[h].at_ready
                /\ once_state = "Ready"
                /\ once_won # <<>>
                /\ once_res[h].val = Some(once_won[1].v))
    /\ \A h \in Harts :
           (Waiting(h) /\ SetCalled) ~> (once_res[h].kind = "wait")

\* C11 witness: a wait that was called on the Empty cell has returned on one
\* hart while another hart is still inside its own wait.
OnceWaitReturnsWitness ==
    \E h, g \in Harts :
        /\ once_res[h].kind = "wait"
        /\ ~once_res[h].after_ready
        /\ once_res[h].val.some
        /\ Waiting(g)

\* Hart h is inside Task::spawn before its task is enqueued.
BeforeAdd(h) == frame[h].at \in {"sp_box", "sp_lock", "sp_from", "sp_add"}

\* Hart h is inside Task::spawn.
InSpawn(h) == BeforeAdd(h) \/ frame[h].at \in {"sp_unlock", "sp_ipi"}

\* C12: the k-th increment of the ticket counter hands out ticket k, no two
\* spawns in progress share a ticket, the spawn of ticket k appends its task
\* to the ready queue of hart k mod N and changes no other scheduler, and
\* once enqueued the task is in that queue and in no other.
SpawnDistribution ==
    /\ [](/\ \A h, g \in Harts :
                (h # g /\ InSpawn(h) /\ InSpawn(g)) => frame[h].tkt # frame[g].tkt
          /\ \A h \in Harts : InSpawn(h) => frame[h].tkt < ticket
          /\ \A k \in Tickets : \A h \in Harts :
                /\ TaskOfTicket(k) \in QueueSet(h) => h = k % NHarts
                /\ (k < ticket /\ h = k % NHarts
                    /\ \A g \in Harts : ~(BeforeAdd(g) /\ frame[g].tkt = k))
                       => TaskOfTicket(k) \in QueueSet(h))
    /\ [][\A h \in Harts :
            /\ (frame[h].at = "run" /\ frame'[h].at = "sp_box") =>
                   frame'[h].tkt = ticket /\ ticket' = ticket + 1
            /\ (frame[h].at = "sp_add" /\ frame'[h] # frame[h]) =>
                   LET k == frame[h].tkt
                   IN  \A s \in Harts :
                           sched'[s] =
                               IF s = k % NHarts
                               THEN [sched[s] EXCEPT !.waiting_tasks =
                                        Append(@, TaskOfTicket(k))]
                               ELSE sched[s]]_vars

\* C12 witness: all tickets are spent and every spawn has returned; the queue
\* of hart 0 holds the tasks of tickets 0 and N in that order and the queue of
\* hart 1 starts with the task of ticket 1; ticket 0 was spawned from another
\* hart than its target.
SpawnDistributionWitness ==
    /\ ticket = MaxTickets
    /\ \A h \in Harts : frame[h].at = "run"
    /\ Len(Queue(0)) >= 2
    /\ Queue(0)[1] = TaskOfTicket(0)
    /\ Queue(0)[2] = TaskOfTicket(NHarts)
    /\ Queue(1)[1] = TaskOfTicket(1)
    /\ ipis[0] # <<>>

\* C13: a spawn sends at most one IPI, to the physical id of its target; it
\* sends it when its target is another hart, with no scheduler lock held, and
\* the target then has its software interrupt pending; it sends none when
\* the target is its own hart; nothing else sends an IPI.
IpiOnRemoteSpawn ==
    /\ [](/\ \A k \in Tickets :
                /\ ipis[k] \in {<<>>, <<PhysicalId(k % NHarts)>>}
                /\ ipis[k] # <<>> => sip[k % NHarts]
          /\ \A h \in Harts :
                frame[h].at = "sp_ipi" => \A s \in Harts : locked[s] # h)
    /\ [][/\ \A h \in Harts :
                (frame[h].at = "sp_ipi" /\ frame'[h] # frame[h]) =>
                    LET k == frame[h].tkt
                        t == k % NHarts
                    IN  /\ frame'[h].at = "run"
                        /\ IF t # h
                           THEN /\ ipis' = [ipis EXCEPT ![k] = <<PhysicalId(t)>>]
                                /\ sip' = [sip EXCEPT ![t] = TRUE]
                           ELSE ipis' = ipis /\ sip' = sip
          /\ ipis' # ipis =>
                \E h \in Harts : frame[h].at = "sp_ipi" /\ frame'[h] # frame[h]]_vars

\* C13 witness: all spawns were made from hart 0 and have returned: the
\* tickets whose target is hart 0 sent no IPI, every other ticket sent one,
\* and two IPIs went to the physical id of hart 1.
IpiOnRemoteSpawnWitness ==
    /\ ticket = MaxTickets
    /\ \A h \in Harts : frame[h].at = "run"
    /\ \A k \in Tickets :
           ipis[k] = IF k % NHarts = 0 THEN <<>> ELSE <<PhysicalId(k % NHarts)>>
    /\ Cardinality({k \in Tickets : ipis[k] = <<PhysicalId(1)>>}) = 2
    /\ sip[1] /\ ~sip[0]

\* Hart h executes: its start did not fail.
Online(h) == frame[h].at # "off"

\* C14: a task that spawn has put in a ready queue can be picked: the hart
\* that owns the queue is online, so it takes timer ticks and calls schedule.
SpawnedTasksRun ==
    \A h \in Harts : Queue(h) # <<>> => Online(h)

\* The step of hart h that executes the locked block of schedule while the
\* current task of its scheduler is a Dead user task.
ReapStep(h) ==
    /\ frame[h].at = "sc_body"
    /\ frame'[h] # frame[h]
    /\ TaskKind(TaskMut(SchedulerOf(h))) = "User"
    /\ task_state[TaskMut(SchedulerOf(h))] = "Dead"

ExitReschedules ==
    /\ [](\A h \in Harts :
            /\ frame[h].at = "ex_mark" => locked[SchedulerOf(h)] = h
            /\ frame[h].at \in {"ex_raise", "ex_wfi"} =>
                   /\ locked[SchedulerOf(h)] # h
                   /\ task_state[thread[h]] = "Dead")
    /\ [][\A h \in Harts :
            (frame[h].at = "ex_wfi" /\ cause'[h] = "software") =>
                frame'[h].at = "sc_lock"]_vars

\* C17: the dispatcher entered for a software interrupt clears the pending
\* bit of the hart and enters the scheduler with the interrupted pc.
SoftwareIpiDispatch ==
    [][\A h \in Harts :
          (cause[h] = "none" /\ cause'[h] = "software") =>
              /\ ~sip'[h]
              /\ frame'[h].at = "sc_lock"
              /\ epc'[h] = frame[h]]_vars

\* C18: the dispatcher entered for an environment call enters the scheduler
\* with the pc of the instruction after the ecall, and what it hands back to
\* _trap is never the pc of the ecall itself.
EcallDispatch ==
    [][\A h \in Harts :
          /\ (cause[h] = "none" /\ cause'[h] = "ecall") =>
                 /\ frame'[h].at = "sc_lock"
                 /\ epc'[h] = Advance(frame[h])
          /\ (cause[h] = "ecall" /\ frame[h].at = "mret") =>
                 ~(frame'[h].at = "sbi" /\ frame'[h].ph = 0)]_vars

\* C19: the dispatcher entered for a timer interrupt programs the next tick and
\* enters the scheduler with the interrupted pc, and what it returns is the pc
\* _trap resumes; every hart has a deadline armed in every state, whichever
\* way schedule leaves the trap.
TimerDispatch ==
    /\ [](\A h \in Harts : armed[h])
    /\ [][\A h \in Harts :
            /\ (cause[h] = "none" /\ cause'[h] = "timer") =>
                   /\ armed'[h]
                   /\ frame'[h].at = "sc_lock"
                   /\ epc'[h] = frame[h]
            /\ (cause[h] = "timer" /\ frame[h].at = "mret" /\ frame'[h] # frame[h]) =>
                   frame'[h] = epc[h]]_vars

\* A hart runs a freshly created task, entered through the trampoline from the
\* schedule of a timer trap and never switched out since, with its deadline armed.
TimerDispatchWitness ==
    \E h \in Harts :
        /\ frame[h].at = "run"
        /\ TaskKind(thread[h]) = "User"
        /\ ctx_ra[thread[h]] = "trampoline"
        /\ cause[h] = "none"
        /\ traps > 0
        /\ armed[h]

ResumePcSaved ==
    [][\A h \in Harts :
          /\ (frame[h].at = "po_read" /\ frame'[h].at = "po_unlock") =>
                 /\ intr[thread[h]] # NullFrame
                 /\ epc'[h] = intr[thread[h]]
          /\ (frame[h].at = "sc_switch" /\ frame'[h].at # "sc_switch") =>
                 IF intr[new_ctx[h]] = NullFrame
                 THEN frame'[h].at = "tramp"
                 ELSE frame'[h].at = "po_lock"]_vars

\* A preempted task is back on the hart with its interrupted pc in hand, and a
\* task spawned from another hart meanwhile is in the hart's queue.
ResumePcSavedWitness ==
    \E h \in Harts :
        /\ frame[h].at = "po_unlock"
        /\ epc[h] = intr[thread[h]]
        /\ epc[h].at = "run"
        /\ \E i \in 1 .. Len(sched[SchedulerOf(h)].waiting_tasks) :
               LET t == sched[SchedulerOf(h)].waiting_tasks[i]
               IN  /\ t >= TaskOfTicket(MaxSpawn)
                   /\ task_state[t] = "Ready"

\* C22: after switch_context(A, B) and then switch_context(B, A) the caller's
\* registers are those it had before the first call; a call stores the
\* registers into the slots of *old, loads them from *new, and leaves the pc
\* of *old and every field of *new as they were.
ContextSwitchInvariant ==
    /\ []((Len(calls) = 2 /\ calls[2] = <<calls[1][2], calls[1][1]>>) =>
             regs = regs0)
    /\ [][Len(calls') > Len(calls) =>
             LET old == calls'[Len(calls')][1]
                 new == calls'[Len(calls')][2]
             IN  /\ mem'[new] = mem[new]
                 /\ mem'[old].pc = mem[old].pc
                 /\ mem'[old].r = regs
                 /\ regs' = mem[new].r]_vars

\* A to B and back, where the registers, the slots of A and the slots of B
\* all differed before the first call, and the pc fields are not zero.
ContextSwitchInvariantWitness ==
    /\ Len(calls) = 2
    /\ calls[1] = <<"A", "B">>
    /\ calls[2] = <<"B", "A">>
    /\ regs = regs0
    /\ mem["B"].r # regs0
    /\ mem["A"].pc # mem["A"].r[0]
    /\ mem["A"].pc = 1
    /\ mem["B"].pc = 1

\* A hart is past the flag gate: it reads the CPU table, sets its thread
\* pointer or runs hart setup.
InRuntime(p) == hpc[p].at \notin {"stopped", "_start", "gate"}

\* C23: the boot-progress flag never decreases, only the boot hart stores to
\* it, and no other hart is past the gate while it is ColdBoot.
BootFlagMonotone ==
    /\ [](/\ writers \subseteq {boot_hart}
          /\ \A p \in BootHarts :
                 (p # boot_hart /\ InRuntime(p)) => boot_status # ColdBoot)
    /\ [][boot_status' >= boot_status]_vars

\* A secondary hart is in its idle loop with its Cpu installed, the flag
\* raised by the boot hart.
BootFlagMonotoneWitness ==
    \E p \in BootHarts :
        /\ p # boot_hart
        /\ hpc[p].at = "online"
        /\ tp[p] # NoCpu
        /\ writers = {boot_hart}
        /\ boot_status # ColdBoot

\* The hart id map and the CPU table are published.
TablesPublished == id_map # <<>> /\ cpu_tab # <<>>

\* The boot order, with the stage the flag is to have from the first
\* hart_start on.
BootOrder(stage) ==
    /\ ~early_alloc
    /\ TablesPublished => heap_claimed
    /\ boot_status # ColdBoot => TablesPublished
    /\ starts # <<>> => boot_status = stage
    /\ \A p \in BootHarts : (p # boot_hart /\ InRuntime(p)) => TablesPublished

\* C24 as stated: no allocation precedes the claim of the heap, the tables are
\* published before the flag is raised, the flag is at its final stage before
\* the first hart_start, and a secondary hart past the gate finds the tables
\* published.
BootOrderingFinal == BootOrder(ReadyToWork)

\* C24, amended: the same order, the flag being at BssInitialized, the stage
\* kmain stores, from the first hart_start on.
BootOrdering == BootOrder(BssInitialized)

\* A secondary hart has looked up its Cpu in the published table after the
\* hart_start call that started it.
BootOrderingWitness ==
    \E p \in BootHarts :
        /\ p # boot_hart
        /\ hpc[p].at = "hart_setup"
        /\ tp[p] = ToLogical(p)
        /\ \E i \in 1 .. Len(starts) : starts[i] = [id |-> p, ok |-> TRUE]
        /\ heap_claimed

\* C25: for a device tree that names the boot hart, the published hart id
\* map has the boot hart's physical id at logical index 0, the Cpu the boot
\* hart installs carries its own physical id, and hart_start is called for
\* the other harts of the map and never for the boot hart.
BootHartAtZero ==
    fdt_cpus # <<>> =>
        /\ id_map # <<>> => id_map[1] = boot_hart
        /\ tp[boot_hart] # NoCpu =>
               cpu_tab[tp[boot_hart] + 1].physical_id = boot_hart
        /\ \A i \in 1 .. Len(starts) : starts[i].id # boot_hart
        /\ hpc[boot_hart].at \in {"hart_setup", "online"} =>
               \A j \in 1 .. Len(id_map) :
                   id_map[j] # boot_hart =>
                       \E i \in 1 .. Len(starts) : starts[i].id = id_map[j]

\* Hart p was started by a hart_start call.
Started(p) == \E i \in 1 .. Len(starts) : starts[i] = [id |-> p, ok |-> TRUE]

\* C26: a hart_start that fails leaves the boot hart in its loop at the next
\* cpu and the target as it was; once the boot hart is in hart setup every
\* cpu after the first has had its hart_start call; a hart no call started
\* stays stopped; and the boot hart does reach its idle loop.
FailedStartNonFatal ==
    /\ [](/\ hpc[boot_hart].at \in {"hart_setup", "online"} =>
                 /\ Len(starts) = Len(cpu_tab) - 1
                 /\ \A j \in 2 .. Len(cpu_tab) :
                        starts[j - 1].id = cpu_tab[j].physical_id
          /\ \A p \in BootHarts :
                 (p # boot_hart /\ ~Started(p)) => hpc[p].at = "stopped")
    /\ [][(Len(starts') > Len(starts) /\ ~starts'[Len(starts')].ok) =>
              /\ hpc'[boot_hart].at = "start_loop"
              /\ hpc'[boot_hart].cpu = hpc[boot_hart].cpu + 1
              /\ \A p \in BootHarts : p # boot_hart => hpc'[p] = hpc[p]]_vars
    /\ <>(hpc[boot_hart].at = "online")

\* The first hart_start failed, the second started its hart, which is in its
\* idle loop like the boot hart, and the failed hart is stopped.
FailedStartNonFatalWitness ==
    /\ Len(starts) = 2
    /\ ~starts[1].ok
    /\ starts[2].ok
    /\ starts[1].id # boot_hart
    /\ hpc[starts[1].id].at = "stopped"
    /\ hpc[starts[2].id].at = "online"
    /\ hpc[boot_hart].at = "online"

\* The step of hart h inside a schedule that found its ready queue empty.
EmptyStep(h) ==
    /\ frame'[h] # frame[h]
    /\ \/ frame[h].at = "sc_body" /\ sched[SchedulerOf(h)].waiting_tasks = <<>>
       \/ frame[h].at = "sc_ret"

\* C28: a schedule that finds the ready queue empty hands back the
\* interrupted pc and changes neither the current task, its state or its
\* context, nor the idle context, nor the ready queue; it prepares no context
\* switch, and it does not hold the scheduler lock when it returns.
EmptyScheduleNoOp ==
    [][\A h \in Harts :
          EmptyStep(h) =>
              /\ UNCHANGED <<sched, task_state, ctx_pc, ctx_ra, idle_ra>>
              /\ UNCHANGED <<thread, old_ctx, new_ctx, drop_task>>
              /\ epc'[h] = epc[h]
              /\ frame'[h].at \in {"sc_ret", "mret"}
              /\ frame'[h].at = "mret" => locked'[SchedulerOf(h)] # h]_vars

\* A schedule entered from a timer tick found the queue empty and has let go
\* of the lock; the task of the hart is still current and Running.
EmptyScheduleNoOpWitness ==
    \E h \in Harts :
        /\ frame[h].at = "sc_ret"
        /\ frame[h].ph = 1
        /\ cause[h] = "timer"
        /\ sched[SchedulerOf(h)].waiting_tasks = <<>>
        /\ locked[SchedulerOf(h)] = NoHart
        /\ sched[SchedulerOf(h)].current_task = thread[h]
        /\ task_state[thread[h]] = "Running"
        /\ epc[h].at = "run"

\* The step of hart h that executes the locked block of schedule with a
\* non-empty ready queue and a current task that is not Dead or is Main.
RotateStep(h) ==
    /\ frame[h].at = "sc_body"
    /\ frame'[h] # frame[h]
    /\ sched[SchedulerOf(h)].waiting_tasks # <<>>
    /\ \/ task_state[sched[SchedulerOf(h)].current_task] # "Dead"
       \/ TaskKind(sched[SchedulerOf(h)].current_task) = "Main"

\* C29: when the locked block of schedule starts with current task P, not
\* Dead or of kind Main, and ready queue [H] ++ rest, it ends with H current
\* and Running, the queue rest ++ [P] and P.context.pc the interrupted pc;
\* the guard is dropped and switch_context is called with P's context as
\* old and H's as new: it stores into P's context and continues as H.
ScheduleRotates ==
    [][\A h \in Harts :
          LET s == SchedulerOf(h)
              P == sched[s].current_task
              H == Head(sched[s].waiting_tasks)
              rest == Tail(sched[s].waiting_tasks)
          IN  /\ RotateStep(h) =>
                    /\ sched'[s].current_task = H
                    /\ task_state'[H] = "Running"
                    /\ sched'[s].waiting_tasks = rest \o <<P>>
                    /\ ctx_pc'[P] = epc[h]
                    /\ old_ctx'[h] = P
                    /\ new_ctx'[h] = H
                    /\ frame'[h].at = "sc_unlock"
              /\ (frame[h].at = "sc_unlock" /\ frame'[h] # frame[h]) =>
                    /\ old_ctx'[h] = old_ctx[h]
                    /\ new_ctx'[h] = new_ctx[h]
                    /\ frame'[h].at \in {"sc_unlock", "sc_switch"}
              /\ (frame[h].at = "sc_switch" /\ frame'[h] # frame[h]
                    /\ old_ctx[h] # NoTask) =>
                    /\ ctx_ra'[old_ctx[h]] = "schedule"
                    /\ thread'[h] = new_ctx[h]
                    /\ new_ctx[h] = sched[s].current_task
                    /\ locked[s] # h]_vars

\* The locked block has rotated a queue of at least two tasks to which
\* another hart had added one: the old task is last, behind the newcomer, and
\* the hart is about to call switch_context.
ScheduleRotatesWitness ==
    \E h \in Harts :
        LET q == sched[SchedulerOf(h)].waiting_tasks
        IN  /\ frame[h].at = "sc_switch"
            /\ old_ctx[h] # NoTask
            /\ Len(q) >= 2
            /\ q[Len(q)] = old_ctx[h]
            /\ ctx_pc[old_ctx[h]] = epc[h]
            /\ new_ctx[h] = sched[SchedulerOf(h)].current_task
            /\ task_state[new_ctx[h]] = "Running"
            /\ \E k \in Tickets :
                   k >= MaxSpawn /\ q[Len(q) - 1] = TaskOfTicket(k)

\* C31: a hart that holds a scheduler lock is at no place where it takes
\* another lock: neither the allocator's (no allocation, no release of memory)
\* nor a scheduler's.
SchedulerLockIsLeaf ==
    \A h \in Harts :
        HoldsGuard(h) => /\ frame[h].at \notin HeapSites
                         /\ frame[h].at \notin LockSites

\* C32: the memory of a Dead user task is not released while a hart still
\* executes on the stack of that task, and what switch_context restores is the
\* context of a task, never the idle context.
DeadReleasedAfterSwitch ==
    \A h \in Harts :
        /\ task_state[thread[h]] # "Freed"
        /\ frame[h].at = "sc_switch" => new_ctx[h] \in Tasks

\* C33: a hart that executes the callable of a task, outside every critical
\* section, has its local interrupts enabled, whether the task was entered
\* through the trampoline or resumed by the return from a trap.
TasksPreemptible ==
    \A h \in Harts :
        (frame[h].at = "run" /\ TaskKind(thread[h]) = "User") => irq[h]

\* The Main tasks a scheduler owns, as current task or in its ready queue.
MainsOwned(h) == {t \in Owned(h) : TaskKind(t) = "Main"}

\* C34: every scheduler owns exactly one Main task, the one its hart was
\* given, and no task owned by one scheduler is ever owned by another; so the
\* ready queue is not empty while a user task is current, and schedule never
\* takes the empty-queue return with a Dead user task current.
MainStaysOnHart ==
    /\ [](\A h \in Harts :
            /\ MainsOwned(h) = {MainTask(h)}
            /\ Occurrences(MainTask(h)) = 1
            /\ TaskKind(sched[h].current_task) = "User" => Queue(h) # <<>>)
    /\ [][/\ \A h, g \in Harts : \A t \in Owned(h) : g # h => t \notin Owned(g)'
          /\ \A h \in Harts :
                (frame[h].at = "sc_body" /\ frame'[h].at = "sc_ret") =>
                    ~(/\ TaskKind(sched[SchedulerOf(h)].current_task) = "User"
                      /\ task_state[sched[SchedulerOf(h)].current_task] = "Dead")]_vars

\* Schedule is in its locked block on a hart whose current task is a Dead
\* user task: the Main task of the hart waits in the ready queue.
MainStaysOnHartWitness ==
    \E h \in Harts :
        /\ frame[h].at = "sc_body"
        /\ TaskKind(sched[h].current_task) = "User"
        /\ task_state[sched[h].current_task] = "Dead"
        /\ MainTask(h) \in QueueSet(h)
        /\ \E g \in Harts : g # h /\ TaskKind(sched[g].current_task) = "User"

\* C35: in every Cpu record stack_top is the base of the hart's kernel stack
\* plus the kernel stack size and trap_stack_top is the base of its trap stack
\* plus the trap stack size: each top is the end of its own allocation.
CpuStackTops ==
    \A i \in 1 .. Len(cpu_vec) :
        /\ cpu_vec[i].stack_top = cpu_alloc[i].stack_ptr + 32 * 1024
        /\ cpu_vec[i].trap_stack_top = cpu_alloc[i].trap_ptr + 8 * 1024

\* C27: every value read_time returns is one the counter held between the
\* call and the return, and the results of successive calls never decrease.
ReadTimeMonotone ==
    /\ [][Len(rt_res') > Len(rt_res) => rt_res'[Len(rt_res')] \in held]_vars
    /\ [](\A i, j \in 1 .. Len(rt_res) : i < j => rt_res[i] <= rt_res[j])

\* A second call returned a later value, the low half having carried into
\* the high half while the call was under way.
ReadTimeMonotoneWitness ==
    /\ rt.pc = "idle"
    /\ Len(rt_res) = 2
    /\ \E a, b \in held : TimeH(a) # TimeH(b)
    /\ rt_res[2] > rt_res[1]

\* C30: a task made from a callable is a Ready user task whose context has
\* ra = pc = the trampoline entry, s1 and s2 the callable's data and vtable
\* pointers, s0 and s3..s11 zero, and sp the stack base plus 16 KiB rounded
\* down to a multiple of 16, above the base and not above base + 16 KiB.
FreshUserContext ==
    \A i \in 1 .. Len(made) :
        LET t == made[i]
            base == from_in.stack_bottom
            top == base + 16 * 1024
        IN  /\ t.kind = "User"
            /\ t.state = "Ready"
            /\ t.stack = base
            /\ t.context.ra = TrampolineEntry
            /\ t.context.pc = TrampolineEntry
            /\ t.context.s[1] = from_in.data_ptr
            /\ t.context.s[2] = from_in.vtable_ptr
            /\ \A r \in SRegs \ {1, 2} : t.context.s[r] = 0
            /\ t.context.sp % 16 = 0
            /\ t.context.sp <= top
            /\ top - t.context.sp < 16
            /\ base < t.context.sp

\* A task was made on a stack whose top is not 16-aligned, from a callable
\* whose two pointers differ: sp is below the top of the stack.
FreshUserContextWitness ==
    /\ Len(made) = 1
    /\ from_in.stack_bottom % 16 # 0
    /\ from_in.data_ptr # from_in.vtable_ptr
    /\ made[1].context.sp < from_in.stack_bottom + STACK_SIZE

Next ==
    \E h \in Harts :
        \/ MutexSample(h)
        \/ MutexDisable(h)
        \/ MutexAcquire(h)
        \/ MutexRelease(h)
        \/ MutexRestore(h)
        \/ HeapLock(h)
        \/ SpawnTicket(h)
        \/ SpawnBoxed(h)
        \/ SpawnTaskFrom(h)
        \/ SpawnAdd(h)
        \/ SpawnIpi(h)
        \/ ExitCall(h)
        \/ ExitMark(h)
        \/ ExitRaise(h)
        \/ TimerTrap(h)
        \/ SoftwareTrap(h)
        \/ Mret(h)
        \/ ScheduleBody(h)
        \/ ScheduleDrop(h)
        \/ SwitchContext(h)
        \/ ScheduleResume(h)
        \/ Trampoline(h)

Spec == Init /\ [][Next]_vars

\* Timer ticks on hart 0 alone, no spawn and no exit.
NextRR ==
    \E h \in {0} :
        \/ TimerTrap(h)
        \/ MutexSample(h)
        \/ MutexAcquire(h)
        \/ ScheduleBody(h)
        \/ MutexRelease(h)
        \/ MutexRestore(h)
        \/ SwitchContext(h)
        \/ Trampoline(h)
        \/ ScheduleResume(h)
        \/ Mret(h)

SpecRR == InitRR /\ [][NextRR]_vars

\* Hart 0 alone with a steady task set: timer ticks, the idle loop's
\* hart_suspend calls, and faults of the running thread.
NextTrap ==
    \E h \in {0} :
        \/ TimerTrap(h)
        \/ MutexSample(h)
        \/ MutexAcquire(h)
        \/ ScheduleBody(h)
        \/ MutexRelease(h)
        \/ MutexRestore(h)
        \/ SwitchContext(h)
        \/ Trampoline(h)
        \/ ScheduleResume(h)
        \/ Mret(h)
        \/ SbiCall(h)
        \/ EcallTrap(h)
        \/ SbiReturn(h)
        \/ FaultTrap(h)

SpecTrap == InitRR /\ [][NextTrap]_vars

\* Timer ticks on hart 0 with a steady task set, while the boot thread of
\* hart 1 keeps calling Task::spawn.
NextResume ==
    \/ \E h \in {0} :
           \/ TimerTrap(h)
           \/ SoftwareTrap(h)
           \/ ScheduleBody(h)
           \/ SwitchContext(h)
           \/ Trampoline(h)
           \/ ScheduleResume(h)
           \/ Mret(h)
    \/ \E h \in {1} :
           \/ SpawnCall(h)
           \/ HeapLock(h)
           \/ SpawnBoxed(h)
           \/ MutexDisable(h)
           \/ SpawnTaskFrom(h)
           \/ SpawnAdd(h)
           \/ SpawnIpi(h)
    \/ \E h \in {0, 1} :
           \/ MutexSample(h)
           \/ MutexAcquire(h)
           \/ MutexRelease(h)
           \/ MutexRestore(h)

\* The steady set of hart 0 holds tasks of the tickets already drawn that
\* selected hart 0.
InitResume ==
    /\ InitRR
    /\ \A i \in 1 .. Len(sched[0].waiting_tasks) :
           \E k \in 0 .. (MaxSpawn - 1) :
               /\ sched[0].waiting_tasks[i] = TaskOfTicket(k)
               /\ TargetHart(k) = 0

SpecResume == InitResume /\ [][NextResume]_vars

\* One caller making up to two switch_context calls.
NextSwitch == SwitchCall

SpecSwitch == InitSwitch /\ [][NextSwitch]_vars

\* Hart 0 with a steady task set and timer ticks, `irq` read as mstatus.MIE
\* and the trampoline setting sstatus.SIE.
NextStatus ==
    \E h \in {0} :
        \/ TimerTrap(h)
        \/ MutexSample(h)
        \/ MutexAcquire(h)
        \/ ScheduleBody(h)
        \/ MutexRelease(h)
        \/ MutexRestore(h)
        \/ SwitchContext(h)
        \/ TrampolineSie(h)
        \/ Mret(h)

SpecStatus == InitRR /\ [][NextStatus]_vars

\* init_cpu_vec building the CPU table.
NextCpuVec == CpuBuild

SpecCpuVec == InitCpu /\ [][NextCpuVec]_vars

\* One call of Task::from.
NextFrom == TaskFrom

SpecFrom == InitFrom /\ [][NextFrom]_vars

\* One hart calling read_time while the counter runs.
NextTime ==
    \/ Tick
    \/ ReadTimeCall
    \/ ReadHi
    \/ ReadLo
    \/ ReadCheck

SpecTime == InitTime /\ [][NextTime]_vars

\* Boot of all harts, from the firmware's entry to the idle loops.
NextBoot ==
    \E p \in BootHarts :
        \/ EntryBranch(p)
        \/ HeapInit(p)
        \/ ParseHartCount(p)
        \/ InitCpuVec(p)
        \/ StoreStatus(p)
        \/ StartHartsSet(p)
        \/ HartStart(p)
        \/ StartHartsJump(p)
        \/ KmainGate(p)
        \/ KmainLookup(p)
        \/ HartSetup(p)

SpecBoot == InitBoot /\ [][NextBoot]_vars

\* Every hart that can take a boot step takes one in the end.
SpecBootLive == InitBoot /\ [][NextBoot]_vars /\ WF_vars(NextBoot)

\* Harts calling set and get on one cell, in any interleaving.
NextOnce ==
    \E h \in Harts :
        \/ OnceSetCall(h)
        \/ OnceSetWin(h)
        \/ OnceSetReject(h)
        \/ OnceSetWrite(h)
        \/ OnceSetStore(h)
        \/ OnceGetCall(h)
        \/ OnceGetLoad(h)
        \/ OnceGetRead(h)

SpecOnce == Init /\ [][NextOnce]_vars

\* Harts calling set and wait on one cell.
NextWait ==
    \E h \in Harts :
        \/ OnceSetCall(h)
        \/ OnceSetWin(h)
        \/ OnceSetReject(h)
        \/ OnceSetWrite(h)
        \/ OnceSetStore(h)
        \/ OnceWaitCall(h)
        \/ OnceWaitLoad(h)
        \/ OnceWaitRead(h)

\* A step of a call of set or wait that hart h has begun.
OnceProgress(h) ==
    \/ OnceSetWin(h)
    \/ OnceSetReject(h)
    \/ OnceSetWrite(h)
    \/ OnceSetStore(h)
    \/ OnceWaitLoad(h)
    \/ OnceWaitRead(h)

\* Every hart that has begun a call keeps executing it; calls are optional.
SpecWait ==
    Init /\ [][NextWait]_vars /\ \A h \in Harts : WF_vars(OnceProgress(h))

\* The boot threads of all harts calling Task::spawn, no trap taken.
NextSpawn ==
    \E h \in Harts :
        \/ SpawnCall(h)
        \/ HeapLock(h)
        \/ SpawnBoxed(h)
        \/ MutexSample(h)
        \/ MutexDisable(h)
        \/ MutexAcquire(h)
        \/ SpawnTaskFrom(h)
        \/ SpawnAdd(h)
        \/ MutexRelease(h)
        \/ MutexRestore(h)
        \/ SpawnIpi(h)

SpecSpawn == Init /\ [][NextSpawn]_vars

\* The kernel after start_harts, whatever harts the firmware started.
SpecStart == InitStart /\ [][Next]_vars

====
